---- MODULE Spec2Model ----
(***************************************************************************)
(* Model of the LiSSA configuration tool (src/config_tool).                *)
(*                                                                         *)
(* Texts (Python str) are sequences of symbols.  A symbol is one           *)
(* character; the identifiers the program uses as dictionary keys, module  *)
(* names and JSON literals (source_store, name, args, custom, true, ...)   *)
(* are written as one symbol each where no operation modelled here looks   *)
(* inside them; a classifier name, which the page splits at "_", is the    *)
(* sequence of its parts.  JSON values (Python dict, list, str, int, bool, *)
(* None) are tagged records; a dict is the sequence of its items in        *)
(* insertion order, as Python keeps it.                                    *)
(***************************************************************************)
EXTENDS Integers, Sequences, FiniteSets, TLC

VARIABLES
    \* one call of the value codec (helpers.py value_to_text / parse_arg_value)
    codec_value,  \* the value handed to value_to_text
    codec_text,   \* the text value_to_text returned
    codec_raw,    \* the text handed to parse_arg_value
    codec_parsed, \* the value parse_arg_value returned
    codec_pc      \* "encode", "decode": call pending; "encoded", "parsed",
                  \* "roundtrip": what has been computed

VARIABLES
    \* one call of merge_dict(base, overrides)
    merge_base,       \* base before the call
    merge_overrides,  \* overrides
    merge_result,     \* base after the call
    merge_pc          \* "call", "done"

VARIABLES
    \* one call of ensure_section(config, path, default)
    ensure_config,    \* config before the call
    ensure_path,      \* path, a non-empty sequence of keys
    ensure_default,   \* default
    ensure_result,    \* [config |-> config after the call, node |-> the value returned]
    ensure_pc         \* "call", "done", "again" (called a second time)

VARIABLES
    \* one args editor and what surrounds it in a session
    table,         \* the editor's session state (rows, captured epoch, counter)
    table_epoch,   \* st.session_state["widget_epoch"]
    table_args,    \* the module's args in the document
    table_op,      \* the last step taken: its kind, whether the rows were
                   \* rebuilt, the row identity it was about
    table_used     \* the row identities handed out since the last rebuild

VARIABLES
    \* a session of the page: st.session_state and what surrounds it
    templates,         \* the files of the templates directory, sorted by name
    CATALOG,           \* load_catalog_sections() at the start of the program
    save_env,          \* os.environ.get("CONFIG_TOOL_ENABLE_SAVE", "")
    save_enabled,      \* SAVE_TO_DISK_ENABLED
    config_data,       \* st.session_state["config_data"], the document
    template_name,     \* st.session_state["template_name"]
    widget_epoch,      \* st.session_state["widget_epoch"]
    selected_template, \* the selection of the template selectbox
    selectbox_index,   \* the template its index argument named in the last run
    uploaded_config,   \* the file the uploader holds
    raw_override_text, \* st.session_state["raw_override_text"]
    args_rows,         \* the session state of the args editors, by key prefix
    messages,          \* the messages the current run has shown so far
    session_event,     \* what the user did to start the current run
    session_pc,        \* the handler the run is at; "end" when it is over,
                       \* "idle" between runs
    session_done,      \* what the last run rendered: the editors, and whether
                       \* it reached the end of the script
    session_runs,      \* the script runs of the session so far
    session_export     \* the text the last run gave the download button and
                       \* the file it wrote

VARIABLES
    \* one call of a function of the page on the state it works on, and the
    \* same call made again on what the first left
    call_input,   \* what the function is called on
    call_result,  \* what the call left and returned
    call_pc       \* "call", "done", "again"

codecVars == <<codec_value, codec_text, codec_raw, codec_parsed, codec_pc>>
mergeVars == <<merge_base, merge_overrides, merge_result, merge_pc>>
ensureVars == <<ensure_config, ensure_path, ensure_default, ensure_result, ensure_pc>>
tableVars == <<table, table_epoch, table_args, table_op, table_used>>
sessionVars == <<templates, CATALOG, save_env, save_enabled, config_data, template_name, widget_epoch,
                 selected_template, selectbox_index, uploaded_config, raw_override_text,
                 args_rows, messages, session_event, session_pc, session_done, session_runs,
                 session_export>>
callVars == <<call_input, call_result, call_pc>>
vars == <<codecVars, mergeVars, ensureVars, tableVars, sessionVars, callVars>>

(***************************************************************************)
(* Symbols                                                                 *)
(***************************************************************************)
QUOTE == "\""
BACKSLASH == "\\"
SPACE == " "
NEWLINE == "\n"
Whitespace == {SPACE, NEWLINE}
Digits == <<"0", "1", "2", "3", "4", "5", "6", "7", "8", "9">>
DigitSet == {Digits[i] : i \in 1..10}
DigitVal(c) == (CHOOSE i \in 1..10 : Digits[i] = c) - 1

(***************************************************************************)
(* Values                                                                  *)
(***************************************************************************)
Str(s) == [t |-> "str", s |-> s]
Num(n) == [t |-> "num", n |-> n]
Bool(b) == [t |-> "bool", b |-> b]
Null == [t |-> "null"]
Dict(items) == [t |-> "dict", items |-> items]
List(elems) == [t |-> "list", elems |-> elems]
Item(k, v) == [k |-> k, v |-> v]
EmptyDict == Dict(<<>>)
EmptyStr == Str(<<>>)

IsDict(v) == v.t = "dict"
IsList(v) == v.t = "list"
IsStr(v) == v.t = "str"

\* Python truthiness of a value: `if x`, `x or ""`.
Truthy(v) ==
    CASE v.t = "str" -> v.s /= <<>>
      [] v.t = "num" -> v.n /= 0
      [] v.t = "bool" -> v.b
      [] v.t = "null" -> FALSE
      [] v.t = "dict" -> v.items /= <<>>
      [] v.t = "list" -> v.elems /= <<>>

\* dict operations on the item sequence
Keys(d) == {d.items[i].k : i \in 1..Len(d.items)}
HasKey(d, k) == \E i \in 1..Len(d.items) : d.items[i].k = k
KeyIndex(d, k) == CHOOSE i \in 1..Len(d.items) : d.items[i].k = k
\* d[k] for a key that is present
GetItem(d, k) == d.items[KeyIndex(d, k)].v
\* d.get(k): None when the key is absent
Get(d, k) == IF HasKey(d, k) THEN GetItem(d, k) ELSE Null
\* d.get(k, default)
GetOr(d, k, default) == IF HasKey(d, k) THEN GetItem(d, k) ELSE default
\* d[k] = v: an existing key keeps its position, a new key is appended
SetItem(d, k, v) ==
    IF HasKey(d, k)
    THEN Dict([d.items EXCEPT ![KeyIndex(d, k)] = Item(k, v)])
    ELSE Dict(Append(d.items, Item(k, v)))

\* dict(pairs): later pairs overwrite earlier ones with the same key
RECURSIVE DictOfPairs(_, _)
DictOfPairs(pairs, acc) ==
    IF pairs = <<>> THEN acc
    ELSE DictOfPairs(Tail(pairs), SetItem(acc, Head(pairs).k, Head(pairs).v))

\* Python ==: dicts compare as mappings (order of items is irrelevant), lists
\* elementwise, bool is an int (True == 1).
NumVal(v) == IF v.t = "bool" THEN (IF v.b THEN 1 ELSE 0) ELSE v.n
RECURSIVE PyEq(_, _)
PyEq(a, b) ==
    IF a.t \in {"num", "bool"} /\ b.t \in {"num", "bool"} THEN NumVal(a) = NumVal(b)
    ELSE IF a.t /= b.t THEN FALSE
    ELSE CASE a.t = "dict" ->
                /\ Keys(a) = Keys(b)
                /\ \A k \in Keys(a) : PyEq(GetItem(a, k), GetItem(b, k))
           [] a.t = "list" ->
                /\ Len(a.elems) = Len(b.elems)
                /\ \A i \in 1..Len(a.elems) : PyEq(a.elems[i], b.elems[i])
           [] OTHER -> a = b

(***************************************************************************)
(* str.strip()                                                             *)
(***************************************************************************)
RECURSIVE LStrip(_)
LStrip(s) == IF s /= <<>> /\ Head(s) \in Whitespace THEN LStrip(Tail(s)) ELSE s
RECURSIVE RStrip(_)
RStrip(s) ==
    IF s /= <<>> /\ s[Len(s)] \in Whitespace
    THEN RStrip(SubSeq(s, 1, Len(s) - 1)) ELSE s
Strip(s) == RStrip(LStrip(s))

(***************************************************************************)
(* json.dumps(value): compact form, separators ", " and ": "               *)
(***************************************************************************)
\* str(n) for a non-negative int
RECURSIVE IntToText(_)
IntToText(n) ==
    IF n < 10 THEN <<Digits[n + 1]>>
    ELSE IntToText(n \div 10) \o <<Digits[(n % 10) + 1]>>

\* the body of a JSON string literal: quote, backslash and newline are escaped
RECURSIVE EscapeText(_)
EscapeText(s) ==
    IF s = <<>> THEN <<>>
    ELSE (IF Head(s) \in {QUOTE, BACKSLASH} THEN <<BACKSLASH, Head(s)>>
          ELSE IF Head(s) = NEWLINE THEN <<BACKSLASH, "n">>
          ELSE <<Head(s)>>)
         \o EscapeText(Tail(s))

QuoteText(s) == <<QUOTE>> \o EscapeText(s) \o <<QUOTE>>

RECURSIVE JsonDumps(_)
RECURSIVE DumpElems(_)
RECURSIVE DumpItems(_)
DumpElems(elems) ==
    IF elems = <<>> THEN <<>>
    ELSE JsonDumps(Head(elems))
         \o (IF Len(elems) > 1 THEN <<",", SPACE>> \o DumpElems(Tail(elems)) ELSE <<>>)
DumpItems(items) ==
    IF items = <<>> THEN <<>>
    ELSE QuoteText(Head(items).k) \o <<":", SPACE>> \o JsonDumps(Head(items).v)
         \o (IF Len(items) > 1 THEN <<",", SPACE>> \o DumpItems(Tail(items)) ELSE <<>>)
JsonDumps(v) ==
    CASE v.t = "str" -> QuoteText(v.s)
      [] v.t = "num" -> IntToText(v.n)
      [] v.t = "bool" -> IF v.b THEN <<"true">> ELSE <<"false">>
      [] v.t = "null" -> <<"null">>
      [] v.t = "list" -> <<"[">> \o DumpElems(v.elems) \o <<"]">>
      [] v.t = "dict" -> <<"{">> \o DumpItems(v.items) \o <<"}">>

(***************************************************************************)
(* json.loads(text): the standard decoder.  A result is                    *)
(* [ok, val, end]: ok is FALSE where the decoder raises JSONDecodeError;   *)
(* end is the index after the value.                                       *)
(***************************************************************************)
Fail == [ok |-> FALSE, val |-> Null, end |-> 0]
Ok(v, e) == [ok |-> TRUE, val |-> v, end |-> e]

RECURSIVE SkipWs(_, _)
SkipWs(s, i) == IF i <= Len(s) /\ s[i] \in Whitespace THEN SkipWs(s, i + 1) ELSE i

\* scanstring: i is the index after the opening quote
RECURSIVE ScanString(_, _, _)
ScanString(s, i, acc) ==
    IF i > Len(s) THEN Fail
    ELSE IF s[i] = QUOTE THEN Ok(acc, i + 1)
    ELSE IF s[i] = BACKSLASH
         THEN IF i + 1 <= Len(s) /\ s[i + 1] \in {QUOTE, BACKSLASH}
              THEN ScanString(s, i + 2, Append(acc, s[i + 1]))
              ELSE IF i + 1 <= Len(s) /\ s[i + 1] = "n"
              THEN ScanString(s, i + 2, Append(acc, NEWLINE))
              ELSE Fail
    ELSE IF s[i] = NEWLINE THEN Fail
    ELSE ScanString(s, i + 1, Append(acc, s[i]))

\* NUMBER_RE: 0, or a non-zero digit followed by digits
RECURSIVE ScanDigits(_, _, _)
ScanDigits(s, i, n) ==
    IF i <= Len(s) /\ s[i] \in DigitSet
    THEN ScanDigits(s, i + 1, 10 * n + DigitVal(s[i]))
    ELSE Ok(Num(n), i)
ScanNumber(s, i) ==
    IF s[i] = "0" THEN Ok(Num(0), i + 1) ELSE ScanDigits(s, i + 1, DigitVal(s[i]))

RECURSIVE ScanOnce(_, _)
RECURSIVE ObjectLoop(_, _, _)
RECURSIVE ArrayLoop(_, _, _)
\* JSONObject: i is the index after "{"
JSONObject(s, i) ==
    LET j == SkipWs(s, i) IN
    IF j > Len(s) THEN Fail
    ELSE IF s[j] = "}" THEN Ok(EmptyDict, j + 1)
    ELSE IF s[j] /= QUOTE THEN Fail
    ELSE ObjectLoop(s, j + 1, <<>>)
\* one "key": value pair; i is the index after the key's opening quote
ObjectLoop(s, i, pairs) ==
    LET key == ScanString(s, i, <<>>) IN
    IF ~key.ok THEN Fail
    ELSE LET c == SkipWs(s, key.end) IN
    IF c > Len(s) \/ s[c] /= ":" THEN Fail
    ELSE LET val == ScanOnce(s, SkipWs(s, c + 1)) IN
    IF ~val.ok THEN Fail
    ELSE LET d == SkipWs(s, val.end)
             more == Append(pairs, Item(key.val, val.val)) IN
    IF d > Len(s) THEN Fail
    ELSE IF s[d] = "}" THEN Ok(DictOfPairs(more, EmptyDict), d + 1)
    ELSE IF s[d] /= "," THEN Fail
    ELSE LET q == SkipWs(s, d + 1) IN
    IF q > Len(s) \/ s[q] /= QUOTE THEN Fail
    ELSE ObjectLoop(s, q + 1, more)
\* JSONArray: i is the index after "["
JSONArray(s, i) ==
    LET j == SkipWs(s, i) IN
    IF j <= Len(s) /\ s[j] = "]" THEN Ok(List(<<>>), j + 1)
    ELSE ArrayLoop(s, j, <<>>)
ArrayLoop(s, i, elems) ==
    LET val == ScanOnce(s, i) IN
    IF ~val.ok THEN Fail
    ELSE LET d == SkipWs(s, val.end)
             more == Append(elems, val.val) IN
    IF d > Len(s) THEN Fail
    ELSE IF s[d] = "]" THEN Ok(List(more), d + 1)
    ELSE IF s[d] /= "," THEN Fail
    ELSE ArrayLoop(s, SkipWs(s, d + 1), more)
ScanOnce(s, i) ==
    IF i > Len(s) THEN Fail
    ELSE CASE s[i] = QUOTE ->
                LET r == ScanString(s, i + 1, <<>>) IN
                IF r.ok THEN Ok(Str(r.val), r.end) ELSE Fail
           [] s[i] = "{" -> JSONObject(s, i + 1)
           [] s[i] = "[" -> JSONArray(s, i + 1)
           [] s[i] = "null" -> Ok(Null, i + 1)
           [] s[i] = "true" -> Ok(Bool(TRUE), i + 1)
           [] s[i] = "false" -> Ok(Bool(FALSE), i + 1)
           [] s[i] \in DigitSet -> ScanNumber(s, i)
           [] OTHER -> Fail

\* JSONDecoder.decode: one value, surrounded by optional whitespace
JsonLoads(s) ==
    LET r == ScanOnce(s, SkipWs(s, 1)) IN
    IF ~r.ok THEN Fail
    ELSE IF SkipWs(s, r.end) /= Len(s) + 1 THEN Fail
    ELSE r

(***************************************************************************)
(* Value codec                                                             *)
(***************************************************************************)
value_to_text(value) ==
    IF value.t \in {"dict", "list"} THEN JsonDumps(value)
    ELSE IF value.t = "bool" THEN (IF value.b THEN <<"true">> ELSE <<"false">>)
    ELSE IF value.t = "null" THEN <<>>
    ELSE IF value.t = "num" THEN IntToText(value.n)
    ELSE value.s

\* mutant: the fallback returns the trimmed text instead of the raw text
parse_arg_value_trimmed(raw_value) ==
    LET cleaned == Strip(raw_value) IN
    IF cleaned = <<>> THEN EmptyStr
    ELSE IF cleaned[1] = "{" \/ cleaned[1] = "["
         THEN LET r == JsonLoads(cleaned) IN
              IF r.ok THEN r.val ELSE Str(cleaned)
    ELSE Str(cleaned)

\* mutant: only "{" is taken for JSON, a "[" text stays a string
parse_arg_value_brace_only(raw_value) ==
    LET cleaned == Strip(raw_value) IN
    IF cleaned = <<>> THEN EmptyStr
    ELSE IF cleaned[1] = "{"
         THEN LET r == JsonLoads(cleaned) IN
              IF r.ok THEN r.val ELSE Str(raw_value)
    ELSE Str(raw_value)

parse_arg_value(raw_value) ==
    LET cleaned == Strip(raw_value) IN
    IF cleaned = <<>> THEN EmptyStr
    ELSE IF cleaned[1] = "{" \/ cleaned[1] = "["
         THEN LET r == JsonLoads(cleaned) IN
              IF r.ok THEN r.val ELSE Str(raw_value)
    ELSE Str(raw_value)

\* mutant: where the terminal key is already there the node holding it is
\* returned, not the value at the key
RECURSIVE ensure_section_returns_parent(_, _, _)
ensure_section_returns_parent(config, path, default) ==
    LET key == Head(path) IN
    IF Len(path) = 1
    THEN IF ~HasKey(config, key)
         THEN [config |-> SetItem(config, key, default), node |-> default]
         ELSE [config |-> config, node |-> config]
    ELSE LET node == IF ~HasKey(config, key) \/ ~IsDict(GetItem(config, key))
                     THEN SetItem(config, key, EmptyDict) ELSE config
             sub == ensure_section_returns_parent(GetItem(node, key), Tail(path), default) IN
         [config |-> SetItem(node, key, sub.config), node |-> sub.node]

(***************************************************************************)
(* Document accessor and override merge                                    *)
(***************************************************************************)
\* mutant: the terminal key is overwritten with the default when it exists
RECURSIVE ensure_section_overwrite(_, _, _)
ensure_section_overwrite(config, path, default) ==
    LET key == Head(path) IN
    IF Len(path) = 1
    THEN LET node == SetItem(config, key, default) IN
         [config |-> node, node |-> GetItem(node, key)]
    ELSE LET node == IF ~HasKey(config, key) \/ ~IsDict(GetItem(config, key))
                     THEN SetItem(config, key, EmptyDict) ELSE config
             sub == ensure_section_overwrite(GetItem(node, key), Tail(path), default) IN
         [config |-> SetItem(node, key, sub.config), node |-> sub.node]

\* ensure_section mutates config in place and returns the node at the end of
\* the path: the result is [config after the call, node returned].
RECURSIVE ensure_section(_, _, _)
ensure_section(config, path, default) ==
    LET key == Head(path) IN
    IF Len(path) = 1
    THEN LET node == IF ~HasKey(config, key) THEN SetItem(config, key, default)
                     ELSE config IN
         [config |-> node, node |-> GetItem(node, key)]
    ELSE LET node == IF ~HasKey(config, key) \/ ~IsDict(GetItem(config, key))
                     THEN SetItem(config, key, EmptyDict) ELSE config
             sub == ensure_section(GetItem(node, key), Tail(path), default) IN
         [config |-> SetItem(node, key, sub.config), node |-> sub.node]

\* mutant: a shallow merge, every key of overrides replaces base[key] outright
RECURSIVE merge_dict_shallow(_, _)
merge_dict_shallow(base, overrides) ==
    IF overrides.items = <<>> THEN base
    ELSE LET key == Head(overrides.items).k
             val == Head(overrides.items).v IN
         merge_dict_shallow(SetItem(base, key, val), Dict(Tail(overrides.items)))

\* merge_dict mutates base in place: the result is base after the call
RECURSIVE merge_dict(_, _)
merge_dict(base, overrides) ==
    IF overrides.items = <<>> THEN base
    ELSE LET key == Head(overrides.items).k
             val == Head(overrides.items).v
             merged == IF IsDict(val) /\ IsDict(Get(base, key))
                       THEN SetItem(base, key, merge_dict(GetItem(base, key), val))
                       ELSE SetItem(base, key, val) IN
         merge_dict(merged, Dict(Tail(overrides.items)))

(***************************************************************************)
(* Args table (helpers.py render_args_editor)                              *)
(*                                                                         *)
(* The session state of one editor: the rows under "<prefix>-args-rows",   *)
(* the epoch captured under "<prefix>-args-rows-epoch" (-1: no entry) and  *)
(* the identity counter under "<prefix>-args-rows-counter".  The three     *)
(* entries are always written together (helpers.py:89-94), so present      *)
(* stands for all of them, and the branches for a missing counter or a     *)
(* row without id (helpers.py:95-96, 100-112) are never taken.             *)
(***************************************************************************)
Row(id, parameter, val) == [id |-> id, parameter |-> parameter, value |-> val]
NoTable == [present |-> FALSE, rows |-> <<>>, epoch |-> -1, counter |-> 0]

\* What the user did to the widgets of one editor before this script run.
\* The widget keys carry the epoch they were rendered in (widget_key), so
\* a click or an edit reaches only the widgets of that same epoch.
NoEvent == [kind |-> "none", id |-> 0, field |-> "parameter", text |-> <<>>, epoch |-> -1]
AddEvent(e) == [kind |-> "add", id |-> 0, field |-> "parameter", text |-> <<>>, epoch |-> e]
EditEvent(id, field, txt, e) ==
    [kind |-> "edit", id |-> id, field |-> field, text |-> txt, epoch |-> e]

\* helpers.py:89-92: one row per item of args, identities 0..n-1
RowsOfArgs(args) ==
    [i \in 1..Len(args.items) |->
        Row(i - 1, args.items[i].k, value_to_text(args.items[i].v))]

\* mutant: the first row with a name wins, later duplicates are ignored
RECURSIVE MaterializeFirstWins(_, _)
MaterializeFirstWins(rows, updated) ==
    IF rows = <<>> THEN updated
    ELSE LET name == Strip(Head(rows).parameter) IN
         IF name = <<>> \/ HasKey(updated, name)
         THEN MaterializeFirstWins(Tail(rows), updated)
         ELSE MaterializeFirstWins(Tail(rows),
                          SetItem(updated, name, parse_arg_value(Head(rows).value)))

\* helpers.py:181-187
RECURSIVE Materialize(_, _)
Materialize(rows, updated) ==
    IF rows = <<>> THEN updated
    ELSE LET name == Strip(Head(rows).parameter) IN
         IF name = <<>> THEN Materialize(Tail(rows), updated)
         ELSE Materialize(Tail(rows),
                          SetItem(updated, name, parse_arg_value(Head(rows).value)))

\* helpers.py:148-178: the text inputs give back the stored texts, but for
\* the field the user has just edited
WidgetTexts(rows, ev, live) ==
    [i \in 1..Len(rows) |->
        IF live /\ ev.kind = "edit" /\ rows[i].id = ev.id
        THEN IF ev.field = "parameter"
             THEN [rows[i] EXCEPT !.parameter = ev.text]
             ELSE [rows[i] EXCEPT !.value = ev.text]
        ELSE rows[i]]

\* mutant: the rows are rebuilt from args on every render
render_args_editor_always_rebuild(tbl, args, current_epoch, ev) ==
    IF ~IsDict(args)
    THEN [crashed |-> TRUE, table |-> tbl, updated |-> EmptyDict, rebuilt |-> TRUE]
    ELSE LET live == ev.epoch = current_epoch
             base == [present |-> TRUE, rows |-> RowsOfArgs(args),
                      epoch |-> current_epoch, counter |-> Len(args.items)]
             added == IF live /\ ev.kind = "add"
                      THEN [base EXCEPT !.rows = Append(@, Row(base.counter, <<>>, <<>>)),
                                        !.counter = @ + 1]
                      ELSE base
             rows == WidgetTexts(added.rows, ev, live) IN
         [crashed |-> FALSE, table |-> [added EXCEPT !.rows = rows],
          updated |-> Materialize(rows, EmptyDict), rebuilt |-> TRUE]

\* mutant: a new row takes the number of rows as its identity
render_args_editor_id_by_length(tbl, args, current_epoch, ev) ==
    LET rebuild == tbl.epoch /= current_epoch \/ ~tbl.present IN
    IF rebuild /\ ~IsDict(args)
    THEN [crashed |-> TRUE, table |-> tbl, updated |-> EmptyDict, rebuilt |-> TRUE]
    ELSE LET live == ev.epoch = current_epoch
             base == IF rebuild
                     THEN [present |-> TRUE, rows |-> RowsOfArgs(args),
                           epoch |-> current_epoch, counter |-> Len(args.items)]
                     ELSE tbl
             added == IF live /\ ev.kind = "add"
                      THEN [base EXCEPT !.rows = Append(@, Row(Len(base.rows), <<>>, <<>>)),
                                        !.counter = Len(base.rows) + 1]
                      ELSE base
             rows == WidgetTexts(added.rows, ev, live) IN
         [crashed |-> FALSE, table |-> [added EXCEPT !.rows = rows],
          updated |-> Materialize(rows, EmptyDict), rebuilt |-> rebuild]

\* render_args_editor(label, args, key_prefix) under the widget epoch
\* current_epoch, with the user's last action ev on this editor.  The result:
\* crashed (args.items() raises when the rows are rebuilt from a value that
\* is no dict), the editor's session state after the call, the mapping
\* returned, and whether the rows were rebuilt.
render_args_editor(tbl, args, current_epoch, ev) ==
    LET rebuild == tbl.epoch /= current_epoch \/ ~tbl.present IN
    IF rebuild /\ ~IsDict(args)
    THEN [crashed |-> TRUE, table |-> tbl, updated |-> EmptyDict, rebuilt |-> TRUE]
    ELSE LET live == ev.epoch = current_epoch
             base == IF rebuild
                     THEN [present |-> TRUE, rows |-> RowsOfArgs(args),
                           epoch |-> current_epoch, counter |-> Len(args.items)]
                     ELSE tbl
             added == IF live /\ ev.kind = "add"
                      THEN [base EXCEPT !.rows = Append(@, Row(base.counter, <<>>, <<>>)),
                                        !.counter = @ + 1]
                      ELSE base
             rows == WidgetTexts(added.rows, ev, live) IN
         [crashed |-> FALSE, table |-> [added EXCEPT !.rows = rows],
          updated |-> Materialize(rows, EmptyDict), rebuilt |-> rebuild]

\* mutant: the row at the position row_id is removed
remove_row_by_position(tbl, row_id) ==
    IF row_id + 1 \in 1..Len(tbl.rows)
    THEN [tbl EXCEPT !.rows = SubSeq(@, 1, row_id) \o SubSeq(@, row_id + 2, Len(@))]
    ELSE tbl

\* _remove_row(row_id), the on_click callback of a row's remove button; it
\* runs before the next script run
remove_row(tbl, row_id) ==
    LET Keep(row) == row.id /= row_id
        remaining == SelectSeq(tbl.rows, Keep) IN
    IF Len(remaining) /= Len(tbl.rows) THEN [tbl EXCEPT !.rows = remaining] ELSE tbl

(***************************************************************************)
(* Python str(), repr(), str.lower(), str.upper() and the first "_" of a   *)
(* text.  Module names that the classifier binding takes apart are written *)
(* as their parts: reasoning_openai is <<"reasoning", "_", "openai">>.     *)
(***************************************************************************)
UNDERSCORE == "_"
APOSTROPHE == "'"

\* the two cases of the symbols that stand for a word with letters
LowerSym(c) ==
    CASE c = "True" -> "true" [] c = "False" -> "false" [] c = "None" -> "none"
      [] c = "OPENAI" -> "openai" [] c = "OLLAMA" -> "ollama"
      [] c = "Azure" -> "azure" [] c = "AZURE" -> "azure"
      [] c = "TRUE" -> "true" [] c = "Yes" -> "yes" [] OTHER -> c
UpperSym(c) ==
    CASE c = "openai" -> "OPENAI" [] c = "ollama" -> "OLLAMA"
      [] c = "Azure" -> "AZURE" [] c = "azure" -> "AZURE" [] OTHER -> c
Lower(s) == [i \in 1..Len(s) |-> LowerSym(s[i])]
Upper(s) == [i \in 1..Len(s) |-> UpperSym(s[i])]

\* repr() of a str: single quotes, backslashes doubled (the texts here hold
\* no apostrophe)
RECURSIVE ReprText(_)
ReprText(s) ==
    IF s = <<>> THEN <<>>
    ELSE (IF Head(s) = BACKSLASH THEN <<BACKSLASH, BACKSLASH>> ELSE <<Head(s)>>)
         \o ReprText(Tail(s))

RECURSIVE PyRepr(_)
RECURSIVE ReprElems(_)
RECURSIVE ReprItems(_)
ReprElems(elems) ==
    IF elems = <<>> THEN <<>>
    ELSE PyRepr(Head(elems))
         \o (IF Len(elems) > 1 THEN <<",", SPACE>> \o ReprElems(Tail(elems)) ELSE <<>>)
ReprItems(items) ==
    IF items = <<>> THEN <<>>
    ELSE <<APOSTROPHE>> \o ReprText(Head(items).k) \o <<APOSTROPHE, ":", SPACE>>
         \o PyRepr(Head(items).v)
         \o (IF Len(items) > 1 THEN <<",", SPACE>> \o ReprItems(Tail(items)) ELSE <<>>)
PyRepr(v) ==
    CASE v.t = "str" -> <<APOSTROPHE>> \o ReprText(v.s) \o <<APOSTROPHE>>
      [] v.t = "num" -> IntToText(v.n)
      [] v.t = "bool" -> IF v.b THEN <<"True">> ELSE <<"False">>
      [] v.t = "null" -> <<"None">>
      [] v.t = "list" -> <<"[">> \o ReprElems(v.elems) \o <<"]">>
      [] v.t = "dict" -> <<"{">> \o ReprItems(v.items) \o <<"}">>

\* str(value)
PyStr(v) == IF v.t = "str" THEN v.s ELSE PyRepr(v)

\* s.find(c) + 1: the index of the first c in s, 0 when there is none
FirstIndex(s, c) ==
    IF \E i \in 1..Len(s) : s[i] = c
    THEN CHOOSE i \in 1..Len(s) : s[i] = c /\ \A j \in 1..(i - 1) : s[j] /= c
    ELSE 0

(***************************************************************************)
(* json.dumps(value, indent=2)                                             *)
(***************************************************************************)
RECURSIVE Spaces(_)
Spaces(n) == IF n = 0 THEN <<>> ELSE <<SPACE>> \o Spaces(n - 1)

RECURSIVE JsonDumpsIndent(_, _)
RECURSIVE DumpElemsIndent(_, _)
RECURSIVE DumpItemsIndent(_, _)
DumpElemsIndent(elems, level) ==
    IF elems = <<>> THEN <<>>
    ELSE Spaces(2 * level) \o JsonDumpsIndent(Head(elems), level)
         \o (IF Len(elems) > 1
             THEN <<",", NEWLINE>> \o DumpElemsIndent(Tail(elems), level) ELSE <<>>)
DumpItemsIndent(items, level) ==
    IF items = <<>> THEN <<>>
    ELSE Spaces(2 * level) \o QuoteText(Head(items).k) \o <<":", SPACE>>
         \o JsonDumpsIndent(Head(items).v, level)
         \o (IF Len(items) > 1
             THEN <<",", NEWLINE>> \o DumpItemsIndent(Tail(items), level) ELSE <<>>)
\* the text of v when v sits at nesting depth level
JsonDumpsIndent(v, level) ==
    CASE v.t = "list" ->
            IF v.elems = <<>> THEN <<"[", "]">>
            ELSE <<"[", NEWLINE>> \o DumpElemsIndent(v.elems, level + 1)
                 \o <<NEWLINE>> \o Spaces(2 * level) \o <<"]">>
      [] v.t = "dict" ->
            IF v.items = <<>> THEN <<"{", "}">>
            ELSE <<"{", NEWLINE>> \o DumpItemsIndent(v.items, level + 1)
                 \o <<NEWLINE>> \o Spaces(2 * level) \o <<"}">>
      [] OTHER -> JsonDumps(v)

(***************************************************************************)
(* The widgets without session state of their own.  ui is what the user    *)
(* did to a widget before this run: chosen / selection for a selectbox,    *)
(* typed / text for a text input; NoInput leaves the widget at the value   *)
(* the script gives it.                                                    *)
(***************************************************************************)
NoInput == [chosen |-> FALSE, selection |-> <<>>, typed |-> FALSE, text |-> <<>>]

\* st.text_input(value=value): the text typed, else value as str (None
\* stays None)
TextInput(value, ui) ==
    IF ui.typed THEN Str(ui.text)
    ELSE IF value.t = "null" THEN Null ELSE Str(PyStr(value))

KeyName == <<"name">>
KeyArgs == <<"args">>
CUSTOM == <<"<custom>">>
NONE_OPTION == <<"<none>">>
MOCK == <<"mock">>

\* the descriptor definitions.get(name) gives; definitions is the set of
\* the names the catalog knows
Descriptor(name) == [found |-> TRUE, name |-> name]
NoDescriptor == [found |-> FALSE, name |-> <<>>]
DescriptorOf(definitions, name) ==
    IF name \in definitions THEN Descriptor(name) ELSE NoDescriptor

\* the code points of the characters the sorted names are made of
CodePoint(c) ==
    CASE c = "B" -> 66 [] c = "a" -> 97 [] c = "b" -> 98 [] OTHER -> 0
\* s < t for two str
RECURSIVE TextLess(_, _)
TextLess(s, t) ==
    IF t = <<>> THEN FALSE
    ELSE IF s = <<>> THEN TRUE
    ELSE IF Head(s) /= Head(t) THEN CodePoint(Head(s)) < CodePoint(Head(t))
    ELSE TextLess(Tail(s), Tail(t))
\* sorted(names)
RECURSIVE Sorted(_)
Sorted(names) ==
    IF names = {} THEN <<>>
    ELSE LET least == CHOOSE x \in names : \A y \in names \ {x} : TextLess(x, y)
         IN <<least>> \o Sorted(names \ {least})

\* helpers.py:259-260: the options of the selectbox
ModuleNameOptions(definitions) == <<CUSTOM>> \o Sorted(definitions)

\* helpers.py:261-268: the selection of the selectbox; it shows the current
\* name, if known, until the user chooses
ModuleNameSelection(current, definitions, ui) ==
    IF ui.chosen THEN ui.selection
    ELSE IF IsStr(current) /\ current.s \in definitions THEN current.s
    ELSE CUSTOM

\* helpers.py:272: the text the custom name input starts with
CustomDefault(current, definitions) ==
    IF IsStr(current) /\ current.s \in definitions THEN EmptyStr ELSE current

\* mutant: the custom name input starts empty
ModuleNameOfBlankCustom(module_config, current, definitions, ui) ==
    IF definitions = {}
    THEN [config |-> SetItem(module_config, KeyName, TextInput(current, ui)),
          module_def |-> NoDescriptor]
    ELSE IF ModuleNameSelection(current, definitions, ui) = CUSTOM
    THEN [config |-> SetItem(module_config, KeyName, TextInput(EmptyStr, ui)),
          module_def |-> NoDescriptor]
    ELSE [config |-> SetItem(module_config, KeyName,
                        Str(ModuleNameSelection(current, definitions, ui))),
          module_def |-> DescriptorOf(definitions,
                                      ModuleNameSelection(current, definitions, ui))]

\* mutant: a known name chosen is not stored, the entry keeps its name
ModuleNameOfKeepsName(module_config, current, definitions, ui) ==
    IF definitions = {}
    THEN [config |-> SetItem(module_config, KeyName, TextInput(current, ui)),
          module_def |-> NoDescriptor]
    ELSE IF ModuleNameSelection(current, definitions, ui) = CUSTOM
    THEN [config |-> SetItem(module_config, KeyName,
                        TextInput(CustomDefault(current, definitions), ui)),
          module_def |-> NoDescriptor]
    ELSE [config |-> SetItem(module_config, KeyName, current),
          module_def |-> DescriptorOf(definitions,
                                      ModuleNameSelection(current, definitions, ui))]

\* module_name_input(module_config, definitions) for a module_config that
\* is a dict.  The result: module_config after the call and the descriptor
\* returned.
ModuleNameOf(module_config, current, definitions, ui) ==
    IF definitions = {}
    THEN [config |-> SetItem(module_config, KeyName, TextInput(current, ui)),
          module_def |-> NoDescriptor]
    ELSE IF ModuleNameSelection(current, definitions, ui) = CUSTOM
    THEN [config |-> SetItem(module_config, KeyName,
                        TextInput(CustomDefault(current, definitions), ui)),
          module_def |-> NoDescriptor]
    ELSE [config |-> SetItem(module_config, KeyName,
                        Str(ModuleNameSelection(current, definitions, ui))),
          module_def |-> DescriptorOf(definitions,
                                      ModuleNameSelection(current, definitions, ui))]
module_name_input(module_config, definitions, ui) ==
    ModuleNameOf(module_config,
        IF Truthy(GetOr(module_config, KeyName, EmptyStr))
        THEN GetOr(module_config, KeyName, EmptyStr) ELSE EmptyStr,
        definitions, ui)

\* ui_sections.py:184-191: "mock" is a mode without platform; any other
\* name is split at its first "_"
SplitClassifierName(s) ==
    IF s = MOCK THEN [mode |-> MOCK, platform |-> <<>>]
    ELSE IF FirstIndex(s, UNDERSCORE) > 0
    THEN [mode |-> SubSeq(s, 1, FirstIndex(s, UNDERSCORE) - 1),
          platform |-> SubSeq(s, FirstIndex(s, UNDERSCORE) + 1, Len(s))]
    ELSE [mode |-> s, platform |-> <<>>]

\* ui_sections.py:193-211: the mode selectbox and the custom mode text
ModeSelection(current_mode, mode_defs, ui) ==
    IF ui.chosen THEN ui.selection
    ELSE IF current_mode \in mode_defs THEN current_mode ELSE CUSTOM
ModeValue(current_mode, mode_defs, ui) ==
    IF ModeSelection(current_mode, mode_defs, ui) = CUSTOM
    THEN Strip(TextInput(Str(IF current_mode \in mode_defs THEN <<>> ELSE current_mode),
                         ui).s)
    ELSE ModeSelection(current_mode, mode_defs, ui)

\* ui_sections.py:213-238: the platform selectbox, disabled for the mode
\* "mock", and the custom platform text
PlatformSelection(current_platform, disabled, platform_defs, ui) ==
    IF ui.chosen /\ ~disabled THEN ui.selection
    ELSE IF current_platform /= <<>> /\ Upper(current_platform) \in platform_defs
    THEN Upper(current_platform)
    ELSE IF current_platform /= <<>> /\ current_platform /= NONE_OPTION THEN CUSTOM
    ELSE NONE_OPTION
\* mutant: a platform chosen from the catalog is joined as the catalog
\* writes it, in upper case
PlatformOfCatalogCase(selection, current_platform, disabled, platform_defs, ui) ==
    IF disabled \/ selection = NONE_OPTION THEN <<>>
    ELSE IF selection = CUSTOM
    THEN Strip(TextInput(Str(IF Upper(current_platform) \notin platform_defs
                             THEN current_platform ELSE <<>>), ui).s)
    ELSE selection
\* mutant: the platform widgets count although the mode is "mock"
PlatformOfIgnoresDisabled(selection, current_platform, disabled, platform_defs, ui) ==
    IF selection = NONE_OPTION THEN <<>>
    ELSE IF selection = CUSTOM
    THEN Strip(TextInput(Str(IF Upper(current_platform) \notin platform_defs
                             THEN current_platform ELSE <<>>), ui).s)
    ELSE Lower(selection)
PlatformOf(selection, current_platform, disabled, platform_defs, ui) ==
    IF disabled \/ selection = NONE_OPTION THEN <<>>
    ELSE IF selection = CUSTOM
    THEN Strip(TextInput(Str(IF Upper(current_platform) \notin platform_defs
                             THEN current_platform ELSE <<>>), ui).s)
    ELSE Lower(selection)
PlatformValue(current_platform, disabled, platform_defs, ui) ==
    PlatformOf(PlatformSelection(current_platform, disabled, platform_defs, ui),
               current_platform, disabled, platform_defs, ui)

\* ui_sections.py:243-248: the name stored
JoinClassifierName(mode_value, platform_value) ==
    IF mode_value = <<>> THEN <<>>
    ELSE IF platform_value = <<>> THEN mode_value
    ELSE mode_value \o <<UNDERSCORE>> \o platform_value

BoundClassifierName(current, mode_value, platform_defs, ui) ==
    JoinClassifierName(mode_value,
        PlatformValue(current.platform, mode_value = MOCK, platform_defs, ui.platform))

\* the classifier's name binding (ui_sections.py:183-248) for a classifier
\* entry that is a dict; ui.mode and ui.platform are the user's input to the
\* mode and the platform widgets.  A name that is no str (and not falsy)
\* raises TypeError at `"_" in current_name` or at `current_mode in mode_defs`.
ClassifierNameOf(classifier, current_name, mode_defs, platform_defs, ui) ==
    IF ~IsStr(current_name) THEN [crashed |-> TRUE, config |-> classifier]
    ELSE [crashed |-> FALSE,
          config |-> SetItem(classifier, KeyName,
              Str(BoundClassifierName(SplitClassifierName(current_name.s),
                      ModeValue(SplitClassifierName(current_name.s).mode, mode_defs, ui.mode),
                      platform_defs, ui)))]
classifier_name_input(classifier, mode_defs, platform_defs, ui) ==
    ClassifierNameOf(classifier,
        IF Truthy(GetOr(classifier, KeyName, EmptyStr))
        THEN GetOr(classifier, KeyName, EmptyStr) ELSE EmptyStr,
        mode_defs, platform_defs, ui)

(***************************************************************************)
(* Store normalisation                                                     *)
(***************************************************************************)
KeySourceStore == <<"source_store">>
KeyTargetStore == <<"target_store">>
NameCustom == <<"custom">>
NameCosine == <<"cosine_similarity">>
ModuleEntry(name, args) == Dict(<<Item(KeyName, Str(name)), Item(KeyArgs, args)>>)

\* mutant: the args of the target store are replaced by an empty mapping
\* whatever they are
TargetStoreNormalizedClearsArgs(config, target_store) ==
    IF ~IsDict(target_store)
    THEN [config |-> SetItem(config, KeyTargetStore, ModuleEntry(NameCosine, EmptyDict)),
          notes |-> <<"target store set to cosine_similarity (missing section)">>]
    ELSE [config |->
             SetItem(config, KeyTargetStore,
                 SetItem(IF PyEq(Get(target_store, KeyName), Str(NameCustom))
                         THEN SetItem(target_store, KeyName, Str(NameCosine))
                         ELSE target_store, KeyArgs, EmptyDict)),
          notes |-> IF PyEq(Get(target_store, KeyName), Str(NameCustom))
                    THEN <<"target store renamed from legacy 'custom' to 'cosine_similarity'">>
                    ELSE <<>>]

\* mutant: the rename also takes the name it renames to, and notes it
TargetStoreNormalizedRenamesAlias(config, target_store) ==
    IF ~IsDict(target_store)
    THEN [config |-> SetItem(config, KeyTargetStore, ModuleEntry(NameCosine, EmptyDict)),
          notes |-> <<"target store set to cosine_similarity (missing section)">>]
    ELSE [config |->
             SetItem(config, KeyTargetStore,
                 IF ~HasKey(target_store, KeyArgs) \/ ~IsDict(GetItem(target_store, KeyArgs))
                 THEN SetItem(IF Get(target_store, KeyName) \in {Str(NameCustom), Str(NameCosine)}
                              THEN SetItem(target_store, KeyName, Str(NameCosine))
                              ELSE target_store, KeyArgs, EmptyDict)
                 ELSE IF Get(target_store, KeyName) \in {Str(NameCustom), Str(NameCosine)}
                      THEN SetItem(target_store, KeyName, Str(NameCosine))
                      ELSE target_store),
          notes |-> IF Get(target_store, KeyName) \in {Str(NameCustom), Str(NameCosine)}
                    THEN <<"target store renamed from legacy 'custom' to 'cosine_similarity'">>
                    ELSE <<>>]

\* helpers.py:218-227: the target store.  The result: config after it and
\* the notes appended.
TargetStoreNormalized(config, target_store) ==
    IF ~IsDict(target_store)
    THEN [config |-> SetItem(config, KeyTargetStore, ModuleEntry(NameCosine, EmptyDict)),
          notes |-> <<"target store set to cosine_similarity (missing section)">>]
    ELSE [config |->
             SetItem(config, KeyTargetStore,
                 IF ~HasKey(target_store, KeyArgs) \/ ~IsDict(GetItem(target_store, KeyArgs))
                 THEN SetItem(IF PyEq(Get(target_store, KeyName), Str(NameCustom))
                              THEN SetItem(target_store, KeyName, Str(NameCosine))
                              ELSE target_store, KeyArgs, EmptyDict)
                 ELSE IF PyEq(Get(target_store, KeyName), Str(NameCustom))
                      THEN SetItem(target_store, KeyName, Str(NameCosine))
                      ELSE target_store),
          notes |-> IF PyEq(Get(target_store, KeyName), Str(NameCustom))
                    THEN <<"target store renamed from legacy 'custom' to 'cosine_similarity'">>
                    ELSE <<>>]

\* mutant: the args of the source store are left as they are
SourceStoreNormalizedKeepsArgs(config, source_store) ==
    IF ~IsDict(source_store)
    THEN [config |-> SetItem(config, KeySourceStore, ModuleEntry(NameCustom, EmptyDict)),
          notes |-> <<"source store reset to required 'custom' store">>]
    ELSE [config |->
             SetItem(config, KeySourceStore,
                 IF ~PyEq(Get(source_store, KeyName), Str(NameCustom))
                 THEN SetItem(source_store, KeyName, Str(NameCustom))
                 ELSE source_store),
          notes |-> IF ~PyEq(Get(source_store, KeyName), Str(NameCustom))
                    THEN <<"source store forced to 'custom' (only supported option)">>
                    ELSE <<>>]

\* helpers.py:229-238: the source store
SourceStoreNormalized(config, source_store) ==
    IF ~IsDict(source_store)
    THEN [config |-> SetItem(config, KeySourceStore, ModuleEntry(NameCustom, EmptyDict)),
          notes |-> <<"source store reset to required 'custom' store">>]
    ELSE [config |->
             SetItem(config, KeySourceStore,
                 IF Truthy(Get(source_store, KeyArgs))
                 THEN SetItem(IF ~PyEq(Get(source_store, KeyName), Str(NameCustom))
                              THEN SetItem(source_store, KeyName, Str(NameCustom))
                              ELSE source_store, KeyArgs, EmptyDict)
                 ELSE IF ~PyEq(Get(source_store, KeyName), Str(NameCustom))
                      THEN SetItem(source_store, KeyName, Str(NameCustom))
                      ELSE source_store),
          notes |-> IF ~PyEq(Get(source_store, KeyName), Str(NameCustom))
                    THEN <<"source store forced to 'custom' (only supported option)">>
                    ELSE <<>>]

NotesJoined(first, second) == [config |-> second.config, notes |-> first.notes \o second.notes]
SourceStoreAfter(first) ==
    NotesJoined(first, SourceStoreNormalized(first.config, Get(first.config, KeySourceStore)))

\* normalize_store_config(config) for a config that is a dict: config after
\* the call and the notes returned
normalize_store_config(config) ==
    SourceStoreAfter(TargetStoreNormalized(config, Get(config, KeyTargetStore)))

(***************************************************************************)
(* The sections of the page.  A section takes and gives the state of the   *)
(* script run: the document, the args editors' session state, whether an   *)
(* exception has ended the run, and the editors rendered so far.           *)
(***************************************************************************)
KeyCacheDir == <<"cache_dir">>
KeyGold == <<"gold_standard_configuration">>
KeyPath == <<"path">>
KeyHasHeader == <<"hasHeader">>
KeyClassifier == <<"classifier">>
KeyClassifiers == <<"classifiers">>
TextTrue == <<"true">>
TextFalse == <<"false">>

\* module_catalog.json, as a file that is there or not
AbsentFile == [exists |-> FALSE, text |-> <<>>]
File(text) == [exists |-> TRUE, text |-> text]
\* the one entry lru_cache(maxsize=1) keeps for load_catalog()
NoCache == [full |-> FALSE, val |-> Null]
Cached(val) == [full |-> TRUE, val |-> val]

\* what a call of load_catalog gives: the document or the exception, the
\* cache after it, and whether it opened the file
Returned(val, cache, opened) ==
    [raised |-> "none", val |-> val, cache |-> cache, opened |-> opened]
Raised(exc, cache) == [raised |-> exc, val |-> Null, cache |-> cache, opened |-> TRUE]
\* json.load(handle): a result is cached, an exception is not
CatalogParsed(r, cache) ==
    IF r.ok THEN Returned(r.val, Cached(r.val), TRUE) ELSE Raised("JSONDecodeError", cache)

\* mutant: no cache, the file is read by every call
load_catalog_uncached(file, cache) ==
    IF ~file.exists THEN Raised("FileNotFoundError", cache)
    ELSE CatalogParsed(JsonLoads(file.text), cache)
\* load_catalog() (catalog.py:14-18)
load_catalog(file, cache) ==
    IF cache.full THEN Returned(cache.val, cache, FALSE)
    ELSE IF ~file.exists THEN Raised("FileNotFoundError", cache)
    ELSE CatalogParsed(JsonLoads(file.text), cache)

\* _index_by_name(entries), as the set of its keys
index_by_name(entries) ==
    {Get(entries.elems[i], KeyName).s :
        i \in {j \in 1..Len(entries.elems) : IsStr(Get(entries.elems[j], KeyName))}}

\* the keys of the result of load_catalog_sections, and for each the names
\* the document gives (catalog.py:25-56)
Categories ==
    {"artifact_providers", "preprocessors", "embedding_creators", "source_store",
     "target_store", "result_aggregators", "postprocessors", "classifier_modes",
     "classifier_platforms"}
ListOf(doc, key) == index_by_name(GetOr(doc, key, List(<<>>)))
CatalogSection(doc, category) ==
    CASE category = "artifact_providers" -> ListOf(doc, <<"artifact_providers">>)
      [] category = "preprocessors" -> ListOf(doc, <<"preprocessors">>)
      [] category = "embedding_creators" -> ListOf(doc, <<"embedding_creators">>)
      [] category = "source_store" ->
            ListOf(GetOr(doc, <<"stores">>, EmptyDict), KeySourceStore)
      [] category = "target_store" ->
            ListOf(GetOr(doc, <<"stores">>, EmptyDict), KeyTargetStore)
      [] category = "result_aggregators" -> ListOf(doc, <<"result_aggregators">>)
      [] category = "postprocessors" -> ListOf(doc, <<"tracelink_postprocessors">>)
      [] category = "classifier_modes" ->
            ListOf(GetOr(doc, <<"classifiers">>, EmptyDict), <<"modes">>)
      [] category = "classifier_platforms" ->
            Keys(GetOr(GetOr(doc, <<"classifiers">>, EmptyDict), <<"platforms">>, EmptyDict))

\* load_catalog_sections(), given what load_catalog gave: the definitions
\* by category and no error, or only the error
NoSections == [c \in {} |-> {}]
load_catalog_sections(loaded) ==
    IF loaded.raised = "FileNotFoundError"
    THEN [error |-> Str(<<"No such file or directory">>), defs |-> NoSections]
    ELSE [error |-> Null, defs |-> [c \in Categories |-> CatalogSection(loaded.val, c)]]

\* a catalog with the modules of the fallback document
Named(name) == Dict(<<Item(KeyName, Str(name))>>)
CatalogDocument ==
    Dict(<<Item(<<"artifact_providers">>, List(<<Named(<<"text">>)>>)),
           Item(<<"preprocessors">>, List(<<Named(<<"artifact">>)>>)),
           Item(<<"embedding_creators">>, List(<<Named(<<"openai">>)>>)),
           Item(<<"stores">>,
                Dict(<<Item(KeySourceStore, List(<<Named(NameCustom)>>)),
                       Item(KeyTargetStore, List(<<Named(NameCosine)>>))>>)),
           Item(<<"classifiers">>,
                Dict(<<Item(<<"modes">>, List(<<Named(MOCK), Named(<<"simple">>),
                                              Named(<<"reasoning">>)>>)),
                       Item(<<"platforms">>,
                            Dict(<<Item(<<"OPENAI">>, EmptyDict),
                                   Item(<<"OLLAMA">>, EmptyDict)>>))>>)),
           Item(<<"result_aggregators">>, List(<<Named(<<"any_connection">>)>>)),
           Item(<<"tracelink_postprocessors">>, List(<<Named(<<"identity">>)>>))>>)
CatalogText == JsonDumps(CatalogDocument)
FullCatalog == load_catalog_sections(load_catalog(File(CatalogText), NoCache))

\* mutant: the names of the catalog although it could not be loaded
CatalogNamesOfDocument(category) == CatalogSection(CatalogDocument, category)
\* CATALOG.get(category, {}), as the set of names
CatalogNames(category) ==
    IF category \in DOMAIN CATALOG.defs THEN CATALOG.defs[category] ELSE {}

\* what the user did before this run to the editor with this key prefix
NoTableEvent == [prefix |-> "", widget |-> NoEvent]
EventFor(ev, prefix) == IF ev.prefix = prefix THEN ev.widget ELSE NoEvent

Crash(rs, config) == [rs EXCEPT !.config = config, !.crashed = TRUE]

\* ui_sections.py:34-47: the gold standard entry, once there
GoldBound(gold_config) ==
    SetItem(SetItem(gold_config, KeyPath,
                    TextInput(GetOr(gold_config, KeyPath, EmptyStr), NoInput)),
            KeyHasHeader,
            Str(IF Lower(PyStr(GetOr(gold_config, KeyHasHeader, Str(TextFalse)))) = TextTrue
                THEN TextTrue ELSE TextFalse))
GoldRendered(rs, e) ==
    IF ~IsDict(e.node) THEN Crash(rs, e.config)
    ELSE [rs EXCEPT !.config = SetItem(e.config, KeyGold, GoldBound(e.node))]

\* render_general_section
render_general_section(rs) ==
    GoldRendered(rs,
        ensure_section(SetItem(rs.config, KeyCacheDir,
                               TextInput(GetOr(rs.config, KeyCacheDir, EmptyStr), NoInput)),
                       <<KeyGold>>,
                       Dict(<<Item(KeyPath, EmptyStr), Item(KeyHasHeader, Str(TextFalse))>>)))

\* entry["args"] = the mapping the editor returned
ArgsWritten(rs, key, e, prefix, r) ==
    IF r.crashed THEN Crash(rs, SetItem(rs.config, key, e.config))
    ELSE [config |-> SetItem(rs.config, key, SetItem(e.config, KeyArgs, r.updated)),
          tables |-> [rs.tables EXCEPT ![prefix] = r.table],
          crashed |-> FALSE,
          rendered |-> rs.rendered \cup {prefix}]
ArgsRendered(rs, key, e, prefix, epoch, ev) ==
    ArgsWritten(rs, key, e, prefix,
        render_args_editor(rs.tables[prefix], e.node, epoch, EventFor(ev, prefix)))

\* the args of a module entry whose name has been bound:
\*   args = ensure_section(entry, ["args"], {})
\*   entry["args"] = render_args_editor(label, args, key_prefix)
render_module_args(rs, key, entry, prefix, epoch, ev) ==
    ArgsRendered(rs, key, ensure_section(entry, <<KeyArgs>>, EmptyDict), prefix, epoch, ev)

ClassifierDefault == <<"reasoning", UNDERSCORE, "openai">>
NoClassifierInput == [mode |-> NoInput, platform |-> NoInput]

\* the name of a module entry is bound by module_name_input, the
\* classifier's by the mode and platform widgets
NameBound(entry, category) ==
    IF category = "classifier"
    THEN classifier_name_input(entry, CatalogNames("classifier_modes"),
                               CatalogNames("classifier_platforms"), NoClassifierInput)
    ELSE [crashed |-> FALSE,
          config |-> module_name_input(entry, CatalogNames(category), NoInput).config]

ModuleBound(rs, sec, b, epoch, ev) ==
    IF b.crashed THEN Crash(rs, rs.config)
    ELSE render_module_args(rs, sec.key, b.config, sec.prefix, epoch, ev)
ModuleEnsured(rs, sec, e, epoch, ev) ==
    IF ~IsDict(e.node) THEN Crash(rs, e.config)
    ELSE ModuleBound([rs EXCEPT !.config = e.config], sec,
                     NameBound(e.node, sec.category), epoch, ev)

\* a module of the page: entry = ensure_section(config, [key], {"name":
\* default, "args": {}}), then its name, then its args.  An entry that is
\* no dict has no get.
render_module(rs, sec, epoch, ev) ==
    ModuleEnsured(rs, sec,
        ensure_section(rs.config, <<sec.key>>, ModuleEntry(sec.name, EmptyDict)), epoch, ev)

\* the source store is fixed
SourceStoreFixed(rs, e) ==
    IF ~IsDict(e.node) THEN Crash(rs, e.config)
    ELSE [rs EXCEPT !.config = SetItem(e.config, KeySourceStore,
              SetItem(SetItem(e.node, KeyName, Str(NameCustom)), KeyArgs, EmptyDict))]
render_source_store(rs) ==
    SourceStoreFixed(rs,
        ensure_section(rs.config, <<KeySourceStore>>, ModuleEntry(NameCustom, EmptyDict)))

Section(key, name, category, prefix) ==
    [key |-> key, name |-> name, category |-> category, prefix |-> prefix]
SourceProvider == Section(<<"source_artifact_provider">>, <<"text">>, "artifact_providers", "Source-provider")
TargetProvider == Section(<<"target_artifact_provider">>, <<"text">>, "artifact_providers", "Target-provider")
SourcePre == Section(<<"source_preprocessor">>, <<"artifact">>, "preprocessors", "Source-pre")
TargetPre == Section(<<"target_preprocessor">>, <<"artifact">>, "preprocessors", "Target-pre")
Embedding == Section(<<"embedding_creator">>, <<"openai">>, "embedding_creators", "embedding")
TargetStore == Section(KeyTargetStore, NameCosine, "target_store", "target-store-args")
ResultAggregator == Section(<<"result_aggregator">>, <<"any_connection">>, "result_aggregators", "result-agg")
PostProcessor == Section(<<"tracelinkid_postprocessor">>, <<"identity">>, "postprocessors", "post")

Classifier == Section(KeyClassifier, ClassifierDefault, "classifier", "classifier")
GeneralSection == Section(<<>>, <<>>, "general", "")
SourceStore == Section(KeySourceStore, NameCustom, "source_store", "")

\* the sections in the order of the script
PageSections ==
    <<GeneralSection, SourceProvider, TargetProvider, SourcePre, TargetPre, Embedding,
      SourceStore, TargetStore, Classifier, ResultAggregator, PostProcessor>>

\* the key prefixes of the args editors
Prefixes == {PageSections[i].prefix : i \in 1..Len(PageSections)} \ {""}

\* mutant: the classifier is bound although the document holds a
\* classifiers list
render_section_binds_classifier(rs, sec, epoch, ev) ==
    CASE sec.category = "general" -> render_general_section(rs)
      [] sec.category = "source_store" -> render_source_store(rs)
      [] OTHER -> render_module(rs, sec, epoch, ev)

\* one section; the classifier is left out when the document holds a
\* classifiers list
render_section(rs, sec, epoch, ev) ==
    CASE sec.category = "general" -> render_general_section(rs)
      [] sec.category = "source_store" -> render_source_store(rs)
      [] sec.category = "classifier" /\ IsList(Get(rs.config, KeyClassifiers)) -> rs
      [] OTHER -> render_module(rs, sec, epoch, ev)

\* an exception ends the run
RECURSIVE render_from(_, _, _, _)
render_from(sections, rs, epoch, ev) ==
    IF sections = <<>> \/ rs.crashed THEN rs
    ELSE render_from(Tail(sections), render_section(rs, Head(sections), epoch, ev),
                     epoch, ev)

render_sections(config, tables, epoch, ev) ==
    render_from(PageSections, [config |-> config, tables |-> tables, crashed |-> FALSE,
                               rendered |-> {}], epoch, ev)

(***************************************************************************)
(* The handlers of the sidebar, of Apply overrides and of Save to disk.    *)
(* A sidebar handler takes and gives the session state it works on:        *)
(* config_data, template_name, widget_epoch and the messages shown.        *)
(***************************************************************************)
\* load_json(path), given the text of the file: ok is FALSE where it raises
load_json(text) == JsonLoads(text)

\* available_templates(): the template files sorted by name, as a sequence
\* of [name, text]
TemplateNames(files) == {files[i].name : i \in 1..Len(files)}
TemplateText(files, name) ==
    files[CHOOSE i \in 1..Len(files) : files[i].name = name].text
NoTemplates == "<no templates found>"

\* default_template_label()
default_template_label(files) == IF files /= <<>> THEN files[1].name ELSE NoTemplates

\* the document initial_config() builds when there is no template
FallbackConfig ==
    Dict(<<Item(KeyCacheDir, Str(<<"./cache/example">>)),
           Item(KeyGold, Dict(<<Item(KeyPath, Str(<<"./datasets/example/answer.csv">>)),
                                Item(KeyHasHeader, Str(TextFalse))>>)),
           Item(SourceProvider.key, ModuleEntry(<<"text">>, EmptyDict)),
           Item(TargetProvider.key, ModuleEntry(<<"text">>, EmptyDict)),
           Item(SourcePre.key, ModuleEntry(<<"artifact">>, EmptyDict)),
           Item(TargetPre.key, ModuleEntry(<<"artifact">>, EmptyDict)),
           Item(Embedding.key, ModuleEntry(<<"openai">>,
                Dict(<<Item(<<"model">>, Str(<<"text-embedding-3-large">>))>>))),
           Item(KeySourceStore, ModuleEntry(NameCustom, EmptyDict)),
           Item(KeyTargetStore, ModuleEntry(NameCosine,
                Dict(<<Item(<<"max_results">>, Str(<<"2", "0">>))>>))),
           Item(KeyClassifier, ModuleEntry(ClassifierDefault,
                Dict(<<Item(<<"model">>, Str(<<"gpt-4o-mini-2024-07-18">>))>>))),
           Item(ResultAggregator.key, ModuleEntry(<<"any_connection">>, EmptyDict)),
           Item(PostProcessor.key, ModuleEntry(<<"identity">>, EmptyDict))>>)

\* initial_config(): ok is FALSE where load_json raises
initial_config(files) ==
    IF files /= <<>> THEN load_json(files[1].text)
    ELSE [ok |-> TRUE, val |-> FallbackConfig, end |-> 0]

Report(ss, message) == [ss EXCEPT !.messages = @ \cup {message}]

\* mutant: the template name is stored before the file is read
load_template_name_first(ss, files, selected) ==
    LET r == load_json(TemplateText(files, selected)) IN
    IF  r.ok
    THEN Report([ss EXCEPT !.config = r.val, !.template_name = selected,
                           !.epoch = @ + 1], "Loaded template")
    ELSE Report([ss EXCEPT !.template_name = selected], "Could not load template")

\* the Load template button (app.py:338-344)
load_template(ss, files, selected) ==
    LET r == load_json(TemplateText(files, selected)) IN
    IF r.ok
    THEN Report([ss EXCEPT !.config = r.val, !.template_name = selected,
                           !.epoch = @ + 1], "Loaded template")
    ELSE Report(ss, "Could not load template")

\* an uploaded file: its text, or bytes that are no UTF-8 text
NoUpload == [present |-> FALSE, utf8 |-> TRUE, text |-> <<>>]
Upload(text) == [present |-> TRUE, utf8 |-> TRUE, text |-> text]
BinaryUpload == [present |-> TRUE, utf8 |-> FALSE, text |-> <<>>]

\* the file the uploader holds (app.py:348-355): json.load raises
\* UnicodeDecodeError, which the handler does not catch, on bytes that are
\* no UTF-8 text, and JSONDecodeError on a text that is no JSON
import_config(ss, uploaded) ==
    IF ~uploaded.utf8 THEN [ss EXCEPT !.crashed = TRUE]
    ELSE LET r == JsonLoads(uploaded.text) IN
         IF r.ok
         THEN Report([ss EXCEPT !.config = r.val, !.epoch = @ + 1], "Loaded file")
         ELSE Report(ss, "Invalid JSON")

\* the Reset to defaults button (app.py:357-361); initial_config() may raise
reset_to_defaults(ss, files) ==
    LET r == initial_config(files) IN
    IF r.ok
    THEN Report([ss EXCEPT !.config = r.val,
                           !.template_name = default_template_label(files),
                           !.epoch = @ + 1], "Reset complete")
    ELSE [ss EXCEPT !.crashed = TRUE]

\* mutant: the top level of the overrides is not checked, a list of pairs
\* is merged like a mapping
apply_overrides_unchecked(config, text) ==
    LET r == JsonLoads(text) IN
    IF ~r.ok THEN [ok |-> FALSE, config |-> config]
    ELSE IF ~IsDict(r.val) THEN [ok |-> FALSE, config |-> EmptyDict]
    ELSE [ok |-> TRUE, config |-> merge_dict(config, r.val)]

\* mutant: the source store of the document outlives the merge
apply_overrides_keeps_source_store(config, text) ==
    LET r == JsonLoads(text) IN
    IF ~r.ok THEN [ok |-> FALSE, config |-> config]
    ELSE IF ~IsDict(r.val) THEN [ok |-> FALSE, config |-> config]
    ELSE [ok |-> TRUE,
          config |-> SetItem(merge_dict(config, r.val), KeySourceStore,
                             Get(config, KeySourceStore))]

\* the Apply overrides button (ui_sections.py:304-312) on the override text
apply_overrides(config, text) ==
    LET r == JsonLoads(text) IN
    IF ~r.ok THEN [ok |-> FALSE, config |-> config]
    ELSE IF ~IsDict(r.val) THEN [ok |-> FALSE, config |-> config]
    ELSE [ok |-> TRUE, config |-> merge_dict(config, r.val)]

\* the text save_config_to_disk writes
save_config_to_disk(config) == JsonDumpsIndent(config, 0) \o <<NEWLINE>>

\* the file a run wrote, if it wrote one
NoFile == [file |-> FALSE, text |-> <<>>]
Written(text) == [file |-> TRUE, text |-> text]
\* a run that did not reach the export
NoExport == [shown |-> FALSE, download |-> <<>>, written |-> NoFile]

\* preview and export (ui_sections.py:315-360): the preview is the data of
\* the download button; Save to disk is looked at only when saving is
\* enabled, and writes unless the file system refuses
\* mutant: Save to disk is looked at whether or not saving is enabled
ExportedUngated(preview, config, enabled, kind) ==
    [shown |-> TRUE,
     download |-> preview,
     written |-> IF kind = "save" THEN Written(save_config_to_disk(config)) ELSE NoFile]
Exported(preview, config, enabled, kind) ==
    [shown |-> TRUE,
     download |-> preview,
     written |-> IF enabled /\ kind = "save"
                 THEN Written(save_config_to_disk(config)) ELSE NoFile]
render_preview_and_export(config, enabled, kind) ==
    Exported(JsonDumpsIndent(config, 0), config, enabled, kind)

\* constants.py:9, given the value of the environment variable
TruthyTexts == {<<"1">>, <<"true">>, <<"yes">>, <<"on">>}
SAVE_TO_DISK_ENABLED(env) == Lower(env) \in TruthyTexts

(***************************************************************************)
(* Inputs of the value codec                                               *)
(***************************************************************************)
\* all sequences over S of length at most n
SeqsUpTo(S, n) == UNION {[1..m -> S] : m \in 0..n}

MaxElems == 2       \* elements of a list / items of a dict in the inputs
MaxRawLen == 3      \* length of the exhaustively enumerated raw texts

NumberInputs == {0, 7, 12}
StringInputs ==
    { <<>>, <<"a">>, <<SPACE>>, <<SPACE, "a", SPACE>>, <<"a", SPACE, "k">>,
      <<"true">>, <<"2", "0">>, <<QUOTE>>, <<BACKSLASH>>,
      <<"{", "}">>, <<SPACE, "[", "1", "]">>, <<"[", "1">>,
      <<"{", QUOTE, "a", QUOTE, ":", SPACE, "1", "}">>,
      <<"a", SPACE, "{", SPACE, "k">> }
ScalarInputs ==
    {Str(s) : s \in StringInputs} \cup {Num(n) : n \in NumberInputs}
    \cup {Bool(TRUE), Bool(FALSE)}
\* leaves of the structured inputs
JsonLeaves ==
    {Str(<<>>), Str(<<"a", QUOTE, BACKSLASH>>), Str(<<SPACE, "true">>),
     Num(0), Num(12), Bool(TRUE), Bool(FALSE), Null}
KeyInputs == {<<"a">>, <<"k", QUOTE>>}

DictsOver(K, S, n) ==
    {Dict(items) : items \in
        {q \in SeqsUpTo({Item(k, v) : k \in K, v \in S}, n) :
            \A i, j \in 1..Len(q) : i /= j => q[i].k /= q[j].k}}
ListsOver(S, n) == {List(elems) : elems \in SeqsUpTo(S, n)}
ContainersOver(S, n) == ListsOver(S, n) \cup DictsOver(KeyInputs, S, n)

FlatInputs == ContainersOver(JsonLeaves, MaxElems)
\* one more level of nesting: a container as the last element of a container
NestedInputs ==
    {List(<<l, c>>) : l \in {Num(1)}, c \in FlatInputs}
    \cup {Dict(<<Item(<<"a">>, l), Item(<<"k">>, c)>>) : l \in {Str(<<"a">>)}, c \in FlatInputs}
    \cup {List(<<List(<<c>>)>>) : c \in FlatInputs}
StructuredInputs == FlatInputs \cup NestedInputs
ValueInputs == ScalarInputs \cup {Null} \cup StructuredInputs

RawAlphabet == {"{", "}", "[", "]", QUOTE, ":", ",", SPACE, "a", "1", "0", BACKSLASH, "true"}
\* every short text, and the encodings of the structured inputs as they are,
\* padded with blanks, cut short, or followed by extra data
RawInputs ==
    SeqsUpTo(RawAlphabet, MaxRawLen)
    \cup StringInputs
    \cup UNION {{JsonDumps(v),
                 <<SPACE>> \o JsonDumps(v) \o <<SPACE>>,
                 SubSeq(JsonDumps(v), 1, Len(JsonDumps(v)) - 1),
                 JsonDumps(v) \o <<"a">>} : v \in StructuredInputs}

(***************************************************************************)
(* Specification of the value codec: one call per behaviour, and the       *)
(* decoding of an encoded value as render_args_editor does it (rows are    *)
(* built with value_to_text and materialized with parse_arg_value).        *)
(***************************************************************************)
CodecIdle ==
    /\ codec_value = Null /\ codec_text = <<>> /\ codec_raw = <<>>
    /\ codec_parsed = Null /\ codec_pc = "idle"
MergeIdle ==
    /\ merge_base = EmptyDict /\ merge_overrides = EmptyDict
    /\ merge_result = EmptyDict /\ merge_pc = "idle"
EnsureIdle ==
    /\ ensure_config = EmptyDict /\ ensure_path = <<>> /\ ensure_default = Null
    /\ ensure_result = [config |-> EmptyDict, node |-> Null] /\ ensure_pc = "idle"

TableOp(kind, rebuilt, id) == [kind |-> kind, rebuilt |-> rebuilt, id |-> id]
TableIdle ==
    /\ table = NoTable /\ table_epoch = 0 /\ table_args = EmptyDict
    /\ table_op = TableOp("idle", FALSE, 0) /\ table_used = {}

Event(kind, prefix, widget) ==
    [kind |-> kind, table |-> [prefix |-> prefix, widget |-> widget]]
PlainEvent(kind) == Event(kind, "", NoEvent)
NothingRendered == [complete |-> FALSE, rendered |-> {}]

NoCall == [fn |-> "none"]
CallIdle == call_input = NoCall /\ call_result = NoCall /\ call_pc = "idle"

SessionIdle ==
    /\ templates = <<>> /\ CATALOG = FullCatalog
    /\ save_env = <<>> /\ save_enabled = FALSE
    /\ config_data = EmptyDict /\ template_name = NoTemplates /\ widget_epoch = 0
    /\ selected_template = NoTemplates /\ selectbox_index = NoTemplates
    /\ uploaded_config = NoUpload /\ raw_override_text = <<>>
    /\ args_rows = [p \in Prefixes |-> NoTable]
    /\ messages = {}
    /\ session_event = PlainEvent("none") /\ session_pc = "off"
    /\ session_done = NothingRendered /\ session_runs = 0
    /\ session_export = NoExport

CodecInit ==
    /\ MergeIdle /\ EnsureIdle /\ TableIdle /\ SessionIdle /\ CallIdle
    /\ codec_text = <<>>
    /\ codec_parsed = Null
    /\ \/ codec_pc = "encode" /\ codec_value \in ValueInputs /\ codec_raw = <<>>
       \/ codec_pc = "decode" /\ codec_value = Null /\ codec_raw \in RawInputs

ValueToText ==
    /\ codec_pc = "encode"
    /\ codec_text' = value_to_text(codec_value)
    /\ codec_pc' = "encoded"
    /\ UNCHANGED <<codec_value, codec_raw, codec_parsed, mergeVars, ensureVars, tableVars, sessionVars, callVars>>

ParseArgValue ==
    /\ codec_pc = "decode"
    /\ codec_parsed' = parse_arg_value(codec_raw)
    /\ codec_pc' = "parsed"
    /\ UNCHANGED <<codec_value, codec_text, codec_raw, mergeVars, ensureVars, tableVars, sessionVars, callVars>>

\* helpers.py:90 then helpers.py:186: the row text of a value is parsed back
ParseEncoded ==
    /\ codec_pc = "encoded"
    /\ codec_raw' = codec_text
    /\ codec_parsed' = parse_arg_value(codec_text)
    /\ codec_pc' = "roundtrip"
    /\ UNCHANGED <<codec_value, codec_text, mergeVars, ensureVars, tableVars, sessionVars, callVars>>

CodecNext == ValueToText \/ ParseArgValue \/ ParseEncoded

SpecCodec == CodecInit /\ [][CodecNext]_vars

(***************************************************************************)
(* Specification of merge_dict: one call per behaviour                     *)
(***************************************************************************)
KeyX == <<"x">>
KeyY == <<"y">>
KeyA == <<"a">>
KeyB == <<"b">>
InnerDicts == DictsOver({KeyA, KeyB}, {Num(1), Num(9)}, MaxElems)
OuterDicts == DictsOver({KeyX, KeyY}, {Num(5)} \cup InnerDicts, MaxElems)
\* a third level: {"x": {"a": d}} for the small dicts d over x
DeepDicts ==
    {Dict(<<Item(KeyX, Dict(<<Item(KeyA, d)>>))>>) :
        d \in DictsOver({KeyX}, {Num(5)} \cup InnerDicts, MaxElems)}

MergeInit ==
    /\ CodecIdle /\ EnsureIdle /\ TableIdle /\ SessionIdle /\ CallIdle
    /\ \/ merge_base \in OuterDicts /\ merge_overrides \in OuterDicts
       \/ merge_base \in DeepDicts /\ merge_overrides \in DeepDicts
    /\ merge_result = EmptyDict
    /\ merge_pc = "call"

MergeDict ==
    /\ merge_pc = "call"
    /\ merge_result' = merge_dict(merge_base, merge_overrides)
    /\ merge_pc' = "done"
    /\ UNCHANGED <<merge_base, merge_overrides, codecVars, ensureVars, tableVars, sessionVars, callVars>>

MergeNext == MergeDict

SpecMerge == MergeInit /\ [][MergeNext]_vars

(***************************************************************************)
(* Specification of ensure_section: one call per behaviour                 *)
(***************************************************************************)
MaxPathLen == 3
EnsureLeafDicts == DictsOver({KeyX, KeyY}, {Num(5), Null, EmptyDict}, MaxElems)
EnsureConfigs == DictsOver({KeyX, KeyY}, {Num(5), Null} \cup EnsureLeafDicts, MaxElems)
EnsurePaths == SeqsUpTo({KeyX, KeyY}, MaxPathLen) \ {<<>>}
EnsureDefaults == {EmptyDict, Str(<<"a">>), Dict(<<Item(KeyA, Num(1))>>)}

EnsureInit ==
    /\ CodecIdle /\ MergeIdle /\ TableIdle /\ SessionIdle /\ CallIdle
    /\ ensure_config \in EnsureConfigs
    /\ ensure_path \in EnsurePaths
    /\ ensure_default \in EnsureDefaults
    /\ ensure_result = [config |-> EmptyDict, node |-> Null]
    /\ ensure_pc = "call"

EnsureSection ==
    /\ ensure_pc = "call"
    /\ ensure_result' = ensure_section(ensure_config, ensure_path, ensure_default)
    /\ ensure_pc' = "done"
    /\ UNCHANGED <<ensure_config, ensure_path, ensure_default, codecVars, mergeVars, tableVars, sessionVars, callVars>>

\* the same call again, on the config as the first call left it
EnsureSectionAgain ==
    /\ ensure_pc = "done"
    /\ ensure_config' = ensure_result.config
    /\ ensure_result' = ensure_section(ensure_result.config, ensure_path, ensure_default)
    /\ ensure_pc' = "again"
    /\ UNCHANGED <<ensure_path, ensure_default, codecVars, mergeVars, tableVars, sessionVars, callVars>>

EnsureNext == EnsureSection \/ EnsureSectionAgain

SpecEnsure == EnsureInit /\ [][EnsureNext]_vars

(***************************************************************************)
(* Specification of one args editor.  Each action is one script run as the *)
(* editor sees it: the user's click or edit, then render_args_editor and   *)
(* the write-back of the mapping it returns (ui_sections.py:72-75).        *)
(***************************************************************************)
MaxRows == 2        \* rows of a table
MaxRowId == 3       \* identities handed out in one epoch
MaxEpoch == 2       \* widget epoch

KeyK == <<"k">>
ParameterInputs == {<<>>, KeyK, <<SPACE, "k">>}
ValueTextInputs == {<<"v">>, <<"[", "1", "]">>}
\* args of a document that is loaded, imported or reset to
ArgsInputs ==
    { EmptyDict,
      Dict(<<Item(KeyK, Str(<<"v">>))>>),
      Dict(<<Item(KeyA, Bool(TRUE)), Item(KeyK, List(<<Num(1)>>))>>),
      Num(5) }
\* what Apply overrides can leave under args
ArgsOverrideInputs == {Dict(<<Item(KeyB, Str(<<"v">>))>>), Num(5)}

RowIds(tbl) == {tbl.rows[i].id : i \in 1..Len(tbl.rows)}
\* the editor's widgets were rendered in the current epoch by the last run
TableRendered == table.present /\ table.epoch = table_epoch

TableInit ==
    /\ CodecIdle /\ MergeIdle /\ EnsureIdle /\ SessionIdle /\ CallIdle
    /\ table = NoTable
    /\ table_epoch = 0
    /\ table_args \in ArgsInputs
    /\ table_op = TableOp("idle", FALSE, 0)
    /\ table_used = {}

TableRan(kind, args, id, r) ==
    /\ table' = r.table
    /\ table_args' = IF r.crashed THEN args ELSE r.updated
    /\ table_op' = TableOp(IF r.crashed THEN "crash" ELSE kind, r.rebuilt, id)
    /\ table_used' = IF r.crashed THEN table_used
                     ELSE IF r.rebuilt THEN RowIds(r.table)
                     ELSE table_used \cup RowIds(r.table)

\* the script run from the editor's call on: a crash ends the run before the
\* write-back
TableRun(kind, tbl, args, epoch, ev, id) ==
    TableRan(kind, args, id, render_args_editor(tbl, args, epoch, ev))

\* the editor's part of a rerun that another widget caused, or of the run
\* in which the sidebar has just replaced the document; in the latter the
\* click that started the run may have been on this editor's add button,
\* rendered in the epoch before
TableRender ==
    /\ table_epoch' = table_epoch
    /\ TableRun("render", table, table_args, table_epoch,
                IF table_op.kind = "replaced_add" THEN AddEvent(table_epoch - 1) ELSE NoEvent,
                0)
    /\ UNCHANGED <<codecVars, mergeVars, ensureVars, sessionVars, callVars>>

TableAddRow ==
    /\ TableRendered
    /\ Len(table.rows) < MaxRows /\ table.counter < MaxRowId
    /\ table_epoch' = table_epoch
    /\ TableRun("add", table, table_args, table_epoch, AddEvent(table_epoch), table.counter)
    /\ UNCHANGED <<codecVars, mergeVars, ensureVars, sessionVars, callVars>>

TableEditRow ==
    /\ TableRendered
    /\ \E id \in RowIds(table), field \in {"parameter", "value"} :
         \E txt \in (IF field = "parameter" THEN ParameterInputs ELSE ValueTextInputs) :
            TableRun("edit", table, table_args, table_epoch,
                     EditEvent(id, field, txt, table_epoch), id)
    /\ table_epoch' = table_epoch
    /\ UNCHANGED <<codecVars, mergeVars, ensureVars, sessionVars, callVars>>

TableRemoveRow ==
    /\ TableRendered
    /\ \E id \in RowIds(table) :
         LET r == render_args_editor(remove_row(table, id), table_args, table_epoch, NoEvent) IN
         /\ table' = r.table
         /\ table_args' = r.updated
         /\ table_op' = TableOp("remove", r.rebuilt, id)
         /\ table_used' = table_used
    /\ table_epoch' = table_epoch
    /\ UNCHANGED <<codecVars, mergeVars, ensureVars, sessionVars, callVars>>

\* the sidebar of a run replaces the document and bumps the epoch
\* (app.py:337-361); the editor is rendered next, by TableRender
TableReplaceDocument ==
    /\ table_epoch < MaxEpoch
    /\ table_op.kind \notin {"replaced", "replaced_add"}
    /\ table_epoch' = table_epoch + 1
    /\ table_args' \in ArgsInputs
    /\ \E click \in BOOLEAN :
         /\ click => TableRendered /\ Len(table.rows) < MaxRows
         /\ table_op' = TableOp(IF click THEN "replaced_add" ELSE "replaced", FALSE, 0)
    /\ UNCHANGED <<table, table_used, codecVars, mergeVars, ensureVars, sessionVars, callVars>>

\* Apply overrides (ui_sections.py:304-310) after the editor was rendered:
\* the document's args change, the editor's session state does not
TableOverride ==
    /\ TableRendered
    /\ table_op.kind /= "override"
    /\ \E ov \in ArgsOverrideInputs :
         table_args' = IF IsDict(ov) /\ IsDict(table_args) THEN merge_dict(table_args, ov) ELSE ov
    /\ table_op' = TableOp("override", FALSE, 0)
    /\ UNCHANGED <<table, table_epoch, table_used, codecVars, mergeVars, ensureVars, sessionVars, callVars>>

TableNext ==
    \/ TableRender \/ TableAddRow \/ TableEditRow \/ TableRemoveRow
    \/ TableReplaceDocument \/ TableOverride

SpecTable == TableInit /\ [][TableNext]_vars

(***************************************************************************)
(* A session of the page: SpecSession.  Every interaction of the user      *)
(* reruns the script from the top; the script run is taken in the order of *)
(* the script, handler by handler: the Load template button, the file      *)
(* uploader, the Reset button, the store normalisation, the sections, the  *)
(* Apply overrides button, the export.                                     *)
(***************************************************************************)
MaxSessionEpoch == 2   \* widget epoch of a session
MaxRuns == 6           \* script runs of a session

TemplateA ==
    Dict(<<Item(PostProcessor.key,
                ModuleEntry(<<"identity">>, Dict(<<Item(KeyK, Str(<<"v">>))>>)))>>)
\* the templates directory: none, or a.json and a broken b.json
TemplateFiles ==
    <<[name |-> "a.json", text |-> JsonDumps(TemplateA)],
      [name |-> "b.json", text |-> <<"{">>]>>
\* where the page runs: the template directory, module_catalog.json there
\* or not, and CONFIG_TOOL_ENABLE_SAVE unset, set to a truthy text in lower,
\* upper and mixed case, and set to other texts
Environments ==
    {[templates |-> <<>>, catalog |-> File(CatalogText), save_env |-> <<>>],
     [templates |-> <<>>, catalog |-> File(CatalogText), save_env |-> <<"TRUE">>],
     [templates |-> <<>>, catalog |-> File(CatalogText), save_env |-> <<"on">>],
     [templates |-> <<>>, catalog |-> File(CatalogText), save_env |-> <<"y">>],
     [templates |-> TemplateFiles, catalog |-> File(CatalogText), save_env |-> <<"1">>],
     [templates |-> TemplateFiles, catalog |-> File(CatalogText), save_env |-> <<"Yes">>],
     [templates |-> <<>>, catalog |-> AbsentFile, save_env |-> <<"1">>],
     [templates |-> TemplateFiles, catalog |-> AbsentFile, save_env |-> <<"false">>]}

DocumentB ==
    Dict(<<Item(KeyClassifiers, List(<<>>)),
           Item(PostProcessor.key,
                ModuleEntry(<<"identity">>, Dict(<<Item(KeyA, Bool(TRUE))>>)))>>)
\* the files the user uploads: a document, a JSON list, a text that is no
\* JSON, bytes that are no text
UploadInputs ==
    {Upload(JsonDumps(DocumentB)), Upload(<<"[", "1", "]">>), Upload(<<"{">>), BinaryUpload}

OverrideB ==
    Dict(<<Item(PostProcessor.key,
                Dict(<<Item(KeyArgs, Dict(<<Item(KeyB, Str(<<"v">>))>>))>>)),
           Item(KeySourceStore, Dict(<<Item(KeyName, Str(<<"weird">>))>>))>>)
\* the override texts the user types: a mapping, a list, a text that is no JSON
OverrideInputs == {JsonDumps(OverrideB), <<"[", "1", "]">>, <<"{">>}

\* the editors the user works on, and the texts typed into their rows
EditablePrefixes == {"post"}
SessionParameterInputs == {KeyK}
SessionValueInputs == {<<"[", "1", "]">>}

\* the session state after app.py:311-316 of the first run
SessionInit ==
    /\ CodecIdle /\ MergeIdle /\ EnsureIdle /\ TableIdle /\ CallIdle
    /\ \E env \in Environments :
          /\ templates = env.templates
          /\ CATALOG = load_catalog_sections(load_catalog(env.catalog, NoCache))
          /\ save_env = env.save_env
          /\ save_enabled = SAVE_TO_DISK_ENABLED(env.save_env)
    /\ config_data = initial_config(templates).val
    /\ template_name = default_template_label(templates)
    /\ widget_epoch = 0
    /\ selected_template = default_template_label(templates)
    /\ selectbox_index = default_template_label(templates)
    /\ uploaded_config = NoUpload
    /\ raw_override_text = <<>>
    /\ args_rows = [p \in Prefixes |-> NoTable]
    /\ messages = {}
    /\ session_event = PlainEvent("start")
    /\ session_pc = "load"
    /\ session_done = NothingRendered
    /\ session_runs = 1
    /\ session_export = NoExport

\* the most the run that ev starts can add to the widget epoch
RunBumps(kind, uploaded) ==
    (IF kind \in {"load", "reset"} THEN 1 ELSE 0)
    + (IF uploaded.present /\ uploaded.utf8 /\ JsonLoads(uploaded.text).ok THEN 1 ELSE 0)

\* the user does something to a widget of the page as the last run left it
StartRun(ev, uploaded) ==
    /\ session_pc = "idle"
    /\ widget_epoch + RunBumps(ev.kind, uploaded) <= MaxSessionEpoch
    /\ session_event' = ev
    /\ session_pc' = "load"
    /\ session_runs < MaxRuns
    /\ session_runs' = session_runs + 1
    /\ session_export' = NoExport
    /\ UNCHANGED messages

runVars == <<templates, CATALOG, save_env, save_enabled, config_data, template_name, widget_epoch,
             selectbox_index, session_done, codecVars, mergeVars, ensureVars, tableVars,
             callVars>>

UserSelectTemplate ==
    /\ \E t \in TemplateNames(templates) \ {selected_template} : selected_template' = t
    /\ StartRun(PlainEvent("select"), uploaded_config)
    /\ UNCHANGED <<uploaded_config, raw_override_text, args_rows, runVars>>

UserLoadTemplate ==
    /\ templates /= <<>>
    /\ StartRun(PlainEvent("load"), uploaded_config)
    /\ UNCHANGED <<selected_template, uploaded_config, raw_override_text, args_rows, runVars>>

UserUpload ==
    /\ \E f \in UploadInputs \ {uploaded_config} :
          /\ uploaded_config' = f
          /\ StartRun(PlainEvent("upload"), f)
    /\ UNCHANGED <<selected_template, raw_override_text, args_rows, runVars>>

UserClearUpload ==
    /\ uploaded_config.present
    /\ uploaded_config' = NoUpload
    /\ StartRun(PlainEvent("clear"), NoUpload)
    /\ UNCHANGED <<selected_template, raw_override_text, args_rows, runVars>>

UserReset ==
    /\ StartRun(PlainEvent("reset"), uploaded_config)
    /\ UNCHANGED <<selected_template, uploaded_config, raw_override_text, args_rows, runVars>>

\* an editor the last run rendered, in the epoch it rendered it in
Editable(p) == p \in EditablePrefixes /\ p \in session_done.rendered

UserAddRow ==
    /\ \E p \in Prefixes :
          /\ Editable(p)
          /\ Len(args_rows[p].rows) < MaxRows /\ args_rows[p].counter < MaxRowId
          /\ StartRun(Event("add", p, AddEvent(widget_epoch)), uploaded_config)
    /\ UNCHANGED <<selected_template, uploaded_config, raw_override_text, args_rows, runVars>>

UserEditRow ==
    /\ \E p \in Prefixes :
          /\ Editable(p)
          /\ \E i \in 1..Len(args_rows[p].rows) :
                \/ \E txt \in SessionParameterInputs \ {args_rows[p].rows[i].parameter} :
                      StartRun(Event("edit", p, EditEvent(args_rows[p].rows[i].id,
                                     "parameter", txt, widget_epoch)), uploaded_config)
                \/ \E txt \in SessionValueInputs \ {args_rows[p].rows[i].value} :
                      StartRun(Event("edit", p, EditEvent(args_rows[p].rows[i].id,
                                     "value", txt, widget_epoch)), uploaded_config)
    /\ UNCHANGED <<selected_template, uploaded_config, raw_override_text, args_rows, runVars>>

\* the remove button's callback runs before the script does
UserRemoveRow ==
    /\ \E p \in Prefixes :
          /\ Editable(p)
          /\ \E i \in 1..Len(args_rows[p].rows) :
                args_rows' = [args_rows EXCEPT ![p] = remove_row(@, args_rows[p].rows[i].id)]
          /\ StartRun(Event("remove", p, NoEvent), uploaded_config)
    /\ UNCHANGED <<selected_template, uploaded_config, raw_override_text, runVars>>

UserEditOverride ==
    /\ session_done.complete
    /\ \E txt \in OverrideInputs \ {raw_override_text} : raw_override_text' = txt
    /\ StartRun(PlainEvent("override_text"), uploaded_config)
    /\ UNCHANGED <<selected_template, uploaded_config, args_rows, runVars>>

UserApplyOverrides ==
    /\ session_done.complete
    /\ StartRun(PlainEvent("apply"), uploaded_config)
    /\ UNCHANGED <<selected_template, uploaded_config, raw_override_text, args_rows, runVars>>

\* Save to disk, which the file system lets succeed or not.  The button is
\* disabled when saving is; a click that reaches the script all the same
\* is a click the script does not look at.
UserSave ==
    /\ session_done.complete
    /\ \E ok \in BOOLEAN :
          StartRun(PlainEvent(IF ok THEN "save" ELSE "save_fails"), uploaded_config)
    /\ UNCHANGED <<selected_template, uploaded_config, raw_override_text, args_rows, runVars>>

UserDownload ==
    /\ session_done.complete
    /\ StartRun(PlainEvent("download"), uploaded_config)
    /\ UNCHANGED <<selected_template, uploaded_config, raw_override_text, args_rows, runVars>>

\* what the sidebar handlers work on
SidebarState ==
    [config |-> config_data, template_name |-> template_name, epoch |-> widget_epoch,
     messages |-> messages, crashed |-> FALSE]

\* app.py:320-324, at the top of the script
CatalogWarning == IF Truthy(CATALOG.error) THEN {"Module catalog missing"} ELSE {}
PageTop == [SidebarState EXCEPT !.messages = @ \cup CatalogWarning]

\* an uncaught exception ends the run: Streamlit shows it and drops the
\* state of the widgets the run did not reach, the override text among
\* them, or keeps it, depending on its version
EndInException(rendered) ==
    /\ session_pc' = "end"
    /\ session_done' = [complete |-> FALSE, rendered |-> rendered]
    /\ UNCHANGED session_event
    /\ raw_override_text' \in {raw_override_text, <<>>}

\* a sidebar handler has run: its session state is stored
SidebarDone(ss, next) ==
    /\ config_data' = ss.config
    /\ template_name' = ss.template_name
    /\ widget_epoch' = ss.epoch
    /\ IF ss.crashed
       THEN /\ messages' = ss.messages \cup {"Uncaught exception"}
            /\ EndInException({})
       ELSE /\ messages' = ss.messages
            /\ session_pc' = next
            /\ UNCHANGED <<session_done, raw_override_text>>

otherVars == <<codecVars, mergeVars, ensureVars, tableVars, callVars, session_runs,
               session_export>>

\* app.py:318-346: the catalog warning, the template selectbox and the Load
\* template button.  The
\* selectbox has no key: it is a new widget, showing template_name, whenever
\* its index argument differs from the one of the run before.
RunLoadTemplate ==
    /\ session_pc = "load"
    /\ LET selected == IF selectbox_index /= template_name THEN template_name
                       ELSE selected_template IN
       /\ selected_template' = selected
       /\ selectbox_index' = template_name
       /\ SidebarDone(IF session_event.kind = "load" /\ templates /= <<>>
                      THEN load_template(PageTop, templates, selected)
                      ELSE PageTop, "import")
    /\ UNCHANGED <<templates, CATALOG, save_env, save_enabled, uploaded_config, args_rows,
                   session_event, otherVars>>

\* app.py:348-355: the uploader gives the file it holds in every run, read
\* from its start
RunImport ==
    /\ session_pc = "import"
    /\ SidebarDone(IF uploaded_config.present
                   THEN import_config(SidebarState, uploaded_config)
                   ELSE SidebarState, "reset")
    /\ UNCHANGED <<templates, CATALOG, save_env, save_enabled, selected_template, selectbox_index,
                   uploaded_config, args_rows, session_event, otherVars>>

\* app.py:357-361
RunReset ==
    /\ session_pc = "reset"
    /\ SidebarDone(IF session_event.kind = "reset"
                   THEN reset_to_defaults(SidebarState, templates)
                   ELSE SidebarState, "normalize")
    /\ UNCHANGED <<templates, CATALOG, save_env, save_enabled, selected_template, selectbox_index,
                   uploaded_config, args_rows, session_event, otherVars>>

Normalized(r) ==
    /\ config_data' = r.config
    /\ messages' = messages \cup {r.notes[i] : i \in 1..Len(r.notes)}
    /\ session_pc' = "sections"
    /\ UNCHANGED <<session_done, raw_override_text>>

\* app.py:370-375: a document that is no dict has no get
RunNormalize ==
    /\ session_pc = "normalize"
    /\ IF IsDict(config_data)
       THEN Normalized(normalize_store_config(config_data))
       ELSE /\ messages' = messages \cup {"Uncaught exception"}
            /\ EndInException({})
            /\ UNCHANGED config_data
    /\ UNCHANGED <<templates, CATALOG, save_env, save_enabled, template_name, widget_epoch, selected_template,
                   selectbox_index, uploaded_config, args_rows, session_event,
                   otherVars>>

SectionsRendered(rs) ==
    /\ config_data' = rs.config
    /\ args_rows' = rs.tables
    /\ IF rs.crashed
       THEN /\ messages' = messages \cup {"Uncaught exception"}
            /\ EndInException(rs.rendered)
       ELSE /\ session_pc' = "overrides"
            /\ session_done' = [complete |-> FALSE, rendered |-> rs.rendered]
            /\ UNCHANGED <<messages, raw_override_text>>

\* app.py:377-569
RunSections ==
    /\ session_pc = "sections"
    /\ SectionsRendered(render_sections(config_data, args_rows, widget_epoch,
                                        session_event.table))
    /\ UNCHANGED <<templates, CATALOG, save_env, save_enabled, template_name, widget_epoch, selected_template,
                   selectbox_index, uploaded_config, session_event, otherVars>>

OverridesApplied(r) ==
    /\ config_data' = r.config
    /\ messages' = messages \cup
          {IF r.ok THEN "Overrides applied" ELSE "Could not apply overrides"}

\* app.py:571-588
RunOverrides ==
    /\ session_pc = "overrides"
    /\ IF session_event.kind = "apply"
       THEN OverridesApplied(apply_overrides(config_data, raw_override_text))
       ELSE UNCHANGED <<config_data, messages>>
    /\ session_pc' = "export"
    /\ UNCHANGED <<templates, CATALOG, save_env, save_enabled, template_name, widget_epoch, selected_template,
                   selectbox_index, uploaded_config, raw_override_text, args_rows,
                   session_event, session_done, otherVars>>

\* app.py:590-627: the export.  The text of the document goes to the
\* download button and, on Save to disk, to the file; the session keeps
\* nothing of either.  The run ends here.
RunExport ==
    /\ session_pc = "export"
    /\ messages' = messages \cup
          (CASE save_enabled /\ session_event.kind = "save" -> {"Saved"}
             [] save_enabled /\ session_event.kind = "save_fails" -> {"Failed to save file"}
             [] OTHER -> {})
    /\ session_export' = render_preview_and_export(config_data, save_enabled,
                                                   session_event.kind)
    /\ session_pc' = "end"
    /\ session_done' = [session_done EXCEPT !.complete = TRUE]
    /\ UNCHANGED <<templates, CATALOG, save_env, save_enabled, config_data, template_name, widget_epoch,
                   selected_template, selectbox_index, uploaded_config, raw_override_text,
                   args_rows, session_event, codecVars, mergeVars, ensureVars,
                   tableVars, callVars, session_runs>>

\* the run is over; the page waits for the user
RunEnd ==
    /\ session_pc = "end"
    /\ session_pc' = "idle"
    /\ session_event' = PlainEvent("none")
    /\ messages' = {}
    /\ UNCHANGED <<templates, CATALOG, save_env, save_enabled, config_data, template_name, widget_epoch,
                   selected_template, selectbox_index, uploaded_config, raw_override_text,
                   args_rows, session_done, otherVars>>

SessionNext ==
    \/ UserSelectTemplate \/ UserLoadTemplate \/ UserUpload \/ UserClearUpload
    \/ UserReset \/ UserAddRow \/ UserEditRow \/ UserRemoveRow
    \/ UserEditOverride \/ UserApplyOverrides \/ UserSave \/ UserDownload
    \/ RunLoadTemplate \/ RunImport \/ RunReset \/ RunNormalize \/ RunSections
    \/ RunOverrides \/ RunExport \/ RunEnd

SpecSession == SessionInit /\ [][SessionNext]_vars

(***************************************************************************)
(* Calls of normalize_store_config                                         *)
(***************************************************************************)
Call(fn, arg) == [fn |-> fn, arg |-> arg]

\* a store entry: a name or none, args or none, another key or none
StoreNameInputs == {Str(NameCustom), Str(NameCosine), Str(<<"weird">>), Null, Num(1)}
StoreArgsInputs ==
    {EmptyDict, Dict(<<Item(KeyK, Str(<<"v">>))>>), Null, EmptyStr, Str(<<"x">>),
     List(<<>>), List(<<Num(1)>>), Num(0), Num(5), Bool(FALSE)}
OptionalItem(k, S) == {<<>>} \cup {<<Item(k, v)>> : v \in S}
StoreEntryInputs ==
    {Dict(n \o a \o x) : n \in OptionalItem(KeyName, StoreNameInputs),
                         a \in OptionalItem(KeyArgs, StoreArgsInputs),
                         x \in OptionalItem(KeyB, {Num(1)})}
\* a store of the document: an entry, or something that is no mapping
StoreInputs == StoreEntryInputs \cup {Null, Str(NameCustom), List(<<>>)}
NormalizeInputs ==
    {Dict(c \o t \o s) : c \in OptionalItem(KeyCacheDir, {EmptyStr}),
                         t \in OptionalItem(KeyTargetStore, StoreInputs),
                         s \in OptionalItem(KeySourceStore, StoreInputs)}

NormalizeInit ==
    /\ CodecIdle /\ MergeIdle /\ EnsureIdle /\ TableIdle /\ SessionIdle
    /\ \E config \in NormalizeInputs : call_input = Call("normalize_store_config", config)
    /\ call_result = NoCall
    /\ call_pc = "call"

NormalizeStoreConfig ==
    /\ call_pc = "call"
    /\ call_result' = normalize_store_config(call_input.arg)
    /\ call_pc' = "done"
    /\ UNCHANGED <<call_input, codecVars, mergeVars, ensureVars, tableVars, sessionVars>>

\* the call again, on the document as the first call left it
NormalizeStoreConfigAgain ==
    /\ call_pc = "done"
    /\ call_result' = normalize_store_config(call_result.config)
    /\ call_pc' = "again"
    /\ UNCHANGED <<call_input, codecVars, mergeVars, ensureVars, tableVars, sessionVars>>

NormalizeNext == NormalizeStoreConfig \/ NormalizeStoreConfigAgain

SpecNormalize == NormalizeInit /\ [][NormalizeNext]_vars

(***************************************************************************)
(* Calls of module_name_input                                              *)
(***************************************************************************)
\* names of single characters, so that their order is the order of str
SortedNameInputs == {<<"a">>, <<"a", "b">>, <<"B">>}
DefinitionsInputs == {{}, {<<"a">>}, SortedNameInputs}
ModuleConfigInputs ==
    {EmptyDict, ModuleEntry(<<"z">>, EmptyDict), ModuleEntry(CUSTOM, EmptyDict),
     Dict(<<Item(KeyName, Null)>>), Dict(<<Item(KeyName, Num(5))>>)}
    \cup {ModuleEntry(n, Dict(<<Item(KeyK, Str(<<"v">>))>>)) : n \in SortedNameInputs \cup {<<>>}}
TypedInputs == {<<>>, <<"a">>, <<"z">>}
\* what the user did to the widgets: nothing, or a choice in the selectbox
\* (if there is one), a text typed into the text input, or both
WidgetInputs(definitions) ==
    {[chosen |-> c, selection |-> IF c THEN sel ELSE <<>>,
      typed |-> t, text |-> IF t THEN txt ELSE <<>>] :
        c \in (IF definitions = {} THEN {FALSE} ELSE BOOLEAN),
        sel \in {CUSTOM} \cup definitions, t \in BOOLEAN, txt \in TypedInputs}

ModuleNameInit ==
    /\ CodecIdle /\ MergeIdle /\ EnsureIdle /\ TableIdle /\ SessionIdle
    /\ \E module_config \in ModuleConfigInputs, definitions \in DefinitionsInputs :
          \E ui \in WidgetInputs(definitions) :
             call_input = Call("module_name_input",
                               [module_config |-> module_config,
                                definitions |-> definitions, ui |-> ui])
    /\ call_result = NoCall
    /\ call_pc = "call"

\* what the call showed and did: the options and the selection of the
\* selectbox, the text the custom name input started with, the entry after
\* the call and the descriptor returned
ModuleNameShown(module_config, current, definitions, ui, bound) ==
    [options |-> ModuleNameOptions(definitions),
     selection |-> ModuleNameSelection(current, definitions, ui),
     custom_default |-> CustomDefault(current, definitions),
     config |-> bound.config, module_def |-> bound.module_def]

ModuleNameInput ==
    /\ call_pc = "call"
    /\ call_result' =
          ModuleNameShown(call_input.arg.module_config,
              IF Truthy(GetOr(call_input.arg.module_config, KeyName, EmptyStr))
              THEN GetOr(call_input.arg.module_config, KeyName, EmptyStr) ELSE EmptyStr,
              call_input.arg.definitions, call_input.arg.ui,
              module_name_input(call_input.arg.module_config,
                                call_input.arg.definitions, call_input.arg.ui))
    /\ call_pc' = "done"
    /\ UNCHANGED <<call_input, codecVars, mergeVars, ensureVars, tableVars, sessionVars>>

ModuleNameNext == ModuleNameInput

SpecModuleName == ModuleNameInit /\ [][ModuleNameNext]_vars

(***************************************************************************)
(* The classifier's name binding                                           *)
(***************************************************************************)
ModeDefs == CatalogNames("classifier_modes")
PlatformDefs == CatalogNames("classifier_platforms")

\* classifier names, as their parts: "mock", modes alone, modes with a
\* platform in lower and in upper case, an unknown mode, an unknown
\* platform, "mock" with a platform, no mode, the empty name
ClassifierNameInputs ==
    {MOCK, <<"reasoning">>, <<"simple">>, ClassifierDefault,
     <<"simple", UNDERSCORE, "ollama">>, <<"reasoning", UNDERSCORE, "OPENAI">>,
     <<"weird">>, <<"weird", UNDERSCORE, "openai">>, <<"reasoning", UNDERSCORE, "x">>,
     <<"mock", UNDERSCORE, "openai">>, <<UNDERSCORE, "openai">>, <<>>,
     <<"simple", UNDERSCORE, "Azure">>}
ClassifierInputs ==
    {ModuleEntry(n, EmptyDict) : n \in ClassifierNameInputs}
    \cup {EmptyDict, Dict(<<Item(KeyName, Num(5))>>)}

\* what the user did to a selectbox and to the text input next to it
ChoiceInputs(options, texts) ==
    {[chosen |-> c, selection |-> IF c THEN sel ELSE <<>>,
      typed |-> t, text |-> IF t THEN txt ELSE <<>>] :
        c \in BOOLEAN, sel \in options, t \in BOOLEAN, txt \in texts}
ModeWidgetInputs ==
    ChoiceInputs({CUSTOM} \cup ModeDefs, {<<SPACE, "mock", SPACE>>, <<"z">>})
PlatformWidgetInputs ==
    ChoiceInputs({NONE_OPTION, CUSTOM} \cup PlatformDefs, {<<"x">>, <<"Azure">>})

ClassifierInit ==
    /\ CodecIdle /\ MergeIdle /\ EnsureIdle /\ TableIdle /\ SessionIdle
    /\ \E classifier \in ClassifierInputs, mode \in ModeWidgetInputs,
          platform \in PlatformWidgetInputs :
          call_input = Call("classifier_name_input",
                            [classifier |-> classifier,
                             ui |-> [mode |-> mode, platform |-> platform]])
    /\ call_result = NoCall
    /\ call_pc = "call"

\* what the binding took the name apart into, the mode and the platform it
\* joined, and the entry after it
ClassifierShown(current, mode_value, ui, bound) ==
    [current_mode |-> current.mode,
     upper_platform |-> Upper(current.platform),
     mode_value |-> mode_value,
     platform_value |-> PlatformValue(current.platform, mode_value = MOCK,
                                      PlatformDefs, ui.platform),
     crashed |-> bound.crashed, config |-> bound.config]
ClassifierSplit(current, ui, bound) ==
    ClassifierShown(current, ModeValue(current.mode, ModeDefs, ui.mode), ui, bound)

ClassifierNameInput ==
    /\ call_pc = "call"
    /\ call_result' =
          ClassifierSplit(
              IF IsStr(Get(call_input.arg.classifier, KeyName))
              THEN SplitClassifierName(Get(call_input.arg.classifier, KeyName).s)
              ELSE SplitClassifierName(<<>>),
              call_input.arg.ui,
              classifier_name_input(call_input.arg.classifier, ModeDefs, PlatformDefs,
                                    call_input.arg.ui))
    /\ call_pc' = "done"
    /\ UNCHANGED <<call_input, codecVars, mergeVars, ensureVars, tableVars, sessionVars>>

ClassifierNext == ClassifierNameInput

SpecClassifier == ClassifierInit /\ [][ClassifierNext]_vars

(***************************************************************************)
(* Render cycles: the store normalisation and the sections, on a document  *)
(* just loaded or imported (no editor has session state yet)               *)
(***************************************************************************)
\* del d[k]
DelItem(d, k) ==
    LET Keep(item) == item.k /= k IN Dict(SelectSeq(d.items, Keep))

\* the module entries of the document, the stores among them
ModuleSections ==
    {PageSections[i] : i \in 1..Len(PageSections)} \ {GeneralSection}

\* what a document may hold for a module: the default entry, another name
\* with args, an entry with a third key, a name that is a number and no
\* args, a name and args that are null, no keys, something that is no mapping
EntryInputs(name) ==
    {ModuleEntry(name, EmptyDict),
     ModuleEntry(<<"other">>, Dict(<<Item(KeyK, Str(<<"v">>))>>)),
     SetItem(ModuleEntry(name, EmptyDict), KeyB, Num(1)),
     Dict(<<Item(KeyName, Num(5))>>),
     Dict(<<Item(KeyName, Null), Item(KeyArgs, Null)>>),
     EmptyDict,
     Str(<<"x">>)}

\* a pipeline of two stages, and the documents it is put into: without a
\* classifier, with one that is no mapping, with one that has no args, and
\* without aggregator and post-processor
Stages ==
    List(<<List(<<ModuleEntry(<<"simple", UNDERSCORE, "openai">>, EmptyDict)>>),
           List(<<ModuleEntry(MOCK, EmptyDict)>>)>>)
ClassifiersDocs ==
    {FallbackConfig,
     DelItem(FallbackConfig, KeyClassifier),
     SetItem(FallbackConfig, KeyClassifier, Str(<<"x">>)),
     SetItem(FallbackConfig, KeyClassifier, Dict(<<Item(KeyName, Str(<<"weird">>))>>)),
     DelItem(DelItem(FallbackConfig, ResultAggregator.key), PostProcessor.key),
     Dict(<<>>)}

\* the documents: the fallback document with one module entry changed or
\* missing, with a classifiers list, and the empty document
RenderInputs ==
    UNION {{SetItem(FallbackConfig, sec.key, entry) : entry \in EntryInputs(sec.name)} :
              sec \in ModuleSections}
    \cup {DelItem(FallbackConfig, sec.key) : sec \in ModuleSections}
    \cup {SetItem(FallbackConfig, KeyClassifiers, List(<<>>)),
          SetItem(DelItem(FallbackConfig, KeyClassifier), KeyClassifiers, List(<<>>)),
          EmptyDict}
    \cup {SetItem(doc, KeyClassifiers, Stages) : doc \in ClassifiersDocs}

RenderInit ==
    /\ CodecIdle /\ MergeIdle /\ EnsureIdle /\ TableIdle /\ SessionIdle
    /\ \E config \in RenderInputs : call_input = Call("render", config)
    /\ call_result = NoCall
    /\ call_pc = "call"

\* app.py:370-569 in the first run of an epoch
RenderCycle ==
    /\ call_pc = "call"
    /\ call_result' = render_sections(normalize_store_config(call_input.arg).config,
                                      [p \in Prefixes |-> NoTable], 0, NoTableEvent)
    /\ call_pc' = "done"
    /\ UNCHANGED <<call_input, codecVars, mergeVars, ensureVars, tableVars, sessionVars>>

\* the rerun that follows, with no input of the user
RenderCycleAgain ==
    /\ call_pc = "done" /\ ~call_result.crashed
    /\ call_result' = render_sections(normalize_store_config(call_result.config).config,
                                      call_result.tables, 0, NoTableEvent)
    /\ call_pc' = "again"
    /\ UNCHANGED <<call_input, codecVars, mergeVars, ensureVars, tableVars, sessionVars>>

RenderNext == RenderCycle \/ RenderCycleAgain

SpecRender == RenderInit /\ [][RenderNext]_vars

(***************************************************************************)
(* Calls of load_catalog while the file comes and goes                     *)
(***************************************************************************)
MaxLoads == 4       \* calls of load_catalog

\* the file: absent, the catalog, two other documents, and no JSON
CatalogFiles ==
    {AbsentFile, File(CatalogText), File(JsonDumps(EmptyDict)),
     File(JsonDumps(Dict(<<Item(<<"preprocessors">>, List(<<>>))>>))), File(<<"{">>)}

NoLoad == [raised |-> "none", val |-> Null, opened |-> FALSE]
CatalogInit ==
    /\ CodecIdle /\ MergeIdle /\ EnsureIdle /\ TableIdle /\ SessionIdle
    /\ \E file \in CatalogFiles : call_input = Call("load_catalog", file)
    /\ call_result = [cache |-> NoCache, last |-> NoLoad, calls |-> 0]
    /\ call_pc = "catalog"

\* the file is written, replaced or removed
CatalogFileChanged ==
    /\ call_pc = "catalog"
    /\ \E file \in CatalogFiles \ {call_input.arg} :
          call_input' = Call("load_catalog", file)
    /\ UNCHANGED <<call_result, call_pc, codecVars, mergeVars, ensureVars, tableVars,
                   sessionVars>>

CatalogLoaded(r) ==
    call_result' = [cache |-> r.cache,
                    last |-> [raised |-> r.raised, val |-> r.val, opened |-> r.opened],
                    calls |-> call_result.calls + 1]
LoadCatalog ==
    /\ call_pc = "catalog" /\ call_result.calls < MaxLoads
    /\ CatalogLoaded(load_catalog(call_input.arg, call_result.cache))
    /\ UNCHANGED <<call_input, call_pc, codecVars, mergeVars, ensureVars, tableVars,
                   sessionVars>>

CatalogNext == CatalogFileChanged \/ LoadCatalog

SpecCatalog == CatalogInit /\ [][CatalogNext]_vars

(***************************************************************************)
(* Claims about the value codec                                            *)
(***************************************************************************)
JsonShaped(s) == Strip(s) /= <<>> /\ Strip(s)[1] \in {"{", "["}
\* the trimmed text begins with { or [ and is valid JSON
IsJsonStructuredText(s) == JsonShaped(s) /\ JsonLoads(Strip(s)).ok

\* C7: parse_arg_value gives "" for a blank text, the parsed mapping or
\* sequence for a text whose trimmed form begins with { or [ and is valid
\* JSON, and the raw text unchanged, as a string, in every other case; the
\* result is never a number, a boolean or null.
C7_ParseArgValue ==
    codec_pc \in {"parsed", "roundtrip"} =>
        /\ Strip(codec_raw) = <<>> => codec_parsed = EmptyStr
        /\ IsJsonStructuredText(codec_raw) =>
              /\ codec_parsed = JsonLoads(Strip(codec_raw)).val
              /\ codec_parsed.t \in {"dict", "list"}
        /\ Strip(codec_raw) /= <<>> /\ ~IsJsonStructuredText(codec_raw) =>
              codec_parsed = Str(codec_raw)
        /\ codec_parsed.t \notin {"num", "bool", "null"}

\* a padded JSON-shaped text that does not parse came back as the raw text
C7_Witness ==
    /\ codec_pc = "parsed"
    /\ JsonShaped(codec_raw) /\ ~JsonLoads(Strip(codec_raw)).ok
    /\ codec_raw /= Strip(codec_raw)
    /\ codec_parsed = Str(codec_raw)

IsScalarLeaf(v) ==
    \/ v.t \in {"num", "bool"}
    \/ v.t = "str" /\ ~IsJsonStructuredText(v.s)

\* C8 as stated: for every string, number or boolean leaf v that is not a
\* string of JSON-structured text, parse_arg_value(value_to_text(v)) == v.
C8_ScalarRoundTrip_AsStated ==
    codec_pc = "roundtrip" /\ IsScalarLeaf(codec_value) =>
        PyEq(codec_parsed, codec_value)

\* C8 amended: the round trip gives back v for a string v that is not
\* JSON-structured text and is empty or has a non-blank character; for a
\* number or a boolean it gives the string value_to_text(v), and for a
\* non-empty all-blank string the empty string.
C8_ScalarRoundTrip ==
    codec_pc = "roundtrip" /\ IsScalarLeaf(codec_value) =>
        /\ codec_value.t = "str" /\ (codec_value.s = <<>> \/ Strip(codec_value.s) /= <<>>) =>
              codec_parsed = codec_value
        /\ codec_value.t = "str" /\ codec_value.s /= <<>> /\ Strip(codec_value.s) = <<>> =>
              codec_parsed = EmptyStr
        /\ codec_value.t = "num" => codec_parsed = Str(IntToText(codec_value.n))
        /\ codec_value.t = "bool" =>
              codec_parsed = Str(IF codec_value.b THEN <<"true">> ELSE <<"false">>)

\* a padded plain string went through the round trip
C8_Witness ==
    /\ codec_pc = "roundtrip"
    /\ codec_value = Str(<<SPACE, "a", SPACE>>)
    /\ codec_parsed = codec_value

\* C9: for every mapping or sequence v of JSON values,
\* parse_arg_value(value_to_text(v)) == v, with the type of v.
C9_StructuredRoundTrip ==
    codec_pc = "roundtrip" /\ codec_value.t \in {"dict", "list"} =>
        /\ codec_parsed.t = codec_value.t
        /\ codec_parsed = codec_value

\* a nested mapping with an escaped string went through the round trip
C9_Witness ==
    /\ codec_pc = "roundtrip"
    /\ codec_value =
          Dict(<<Item(<<"a">>, Str(<<"a">>)),
                 Item(<<"k">>, List(<<Str(<<"a", QUOTE, BACKSLASH>>), Null>>))>>)
    /\ codec_parsed = codec_value

(***************************************************************************)
(* Claims about merge_dict and ensure_section                              *)
(***************************************************************************)
\* r is the merge of overrides o into base b, as the claim describes it
RECURSIVE IsMergeOf(_, _, _)
IsMergeOf(r, b, o) ==
    /\ IsDict(r)
    /\ Keys(r) = Keys(b) \cup Keys(o)
    /\ \A k \in Keys(r) :
          IF k \in Keys(o)
          THEN IF IsDict(GetItem(o, k)) /\ k \in Keys(b) /\ IsDict(GetItem(b, k))
               THEN IsMergeOf(GetItem(r, k), GetItem(b, k), GetItem(o, k))
               ELSE GetItem(r, k) = GetItem(o, k)
          ELSE GetItem(r, k) = GetItem(b, k)

\* C1: after merge_dict(base, overrides), for every key k of overrides the
\* value at k is the recursive merge when overrides[k] and base[k] are both
\* mappings and exactly overrides[k] otherwise; every key of base that is
\* not in overrides keeps its value, at every nesting depth.
C1_MergeDict ==
    merge_pc = "done" => IsMergeOf(merge_result, merge_base, merge_overrides)

\* the spec's two examples in one call: a nested mapping merged key by key
\* and a mapping replaced by a scalar
C1_Witness ==
    /\ merge_pc = "done"
    /\ merge_base = Dict(<<Item(KeyX, Dict(<<Item(KeyA, Num(1)), Item(KeyB, Num(1))>>)),
                           Item(KeyY, Dict(<<Item(KeyA, Num(1))>>))>>)
    /\ merge_overrides = Dict(<<Item(KeyX, Dict(<<Item(KeyB, Num(9))>>)),
                                Item(KeyY, Num(5))>>)
    /\ merge_result = Dict(<<Item(KeyX, Dict(<<Item(KeyA, Num(1)), Item(KeyB, Num(9))>>)),
                             Item(KeyY, Num(5))>>)

\* r is config c after ensure_section(c, path, default), as the claim
\* describes it: only the key on the path may differ from c
RECURSIVE IsEnsured(_, _, _, _)
IsEnsured(r, c, path, default) ==
    LET key == Head(path) IN
    /\ IsDict(r)
    /\ Keys(r) = Keys(c) \cup {key}
    /\ \A k \in Keys(c) \ {key} : GetItem(r, k) = GetItem(c, k)
    /\ IF Len(path) = 1
       THEN GetItem(r, key) = (IF HasKey(c, key) THEN GetItem(c, key) ELSE default)
       ELSE IsEnsured(GetItem(r, key),
                      IF HasKey(c, key) /\ IsDict(GetItem(c, key))
                      THEN GetItem(c, key) ELSE EmptyDict,
                      Tail(path), default)

\* the value stored at the end of a path
RECURSIVE GetPath(_, _)
GetPath(d, path) ==
    IF path = <<>> THEN d ELSE GetPath(GetItem(d, Head(path)), Tail(path))

\* C10: ensure_section replaces every missing or non-mapping non-terminal
\* key of the path by an empty mapping, installs the default at the terminal
\* key only if that key is absent, leaves an existing terminal value of any
\* type as it is, returns the value stored at the terminal key, and changes
\* nothing off the path.
C10_EnsureSection ==
    ensure_pc = "done" =>
        /\ IsEnsured(ensure_result.config, ensure_config, ensure_path, ensure_default)
        /\ ensure_result.node = GetPath(ensure_result.config, ensure_path)

\* a scalar on the path was destroyed, a sibling kept, the default installed
C10_Witness ==
    /\ ensure_pc = "done"
    /\ ensure_config = Dict(<<Item(KeyX, Num(5)), Item(KeyY, Null)>>)
    /\ ensure_path = <<KeyX, KeyY>>
    /\ ensure_default = Dict(<<Item(KeyA, Num(1))>>)
    /\ ensure_result.config =
          Dict(<<Item(KeyX, Dict(<<Item(KeyY, ensure_default)>>)), Item(KeyY, Null)>>)
    /\ ensure_result.node = ensure_default

(***************************************************************************)
(* Claims about the args table                                             *)
(***************************************************************************)
\* C4: a render rebuilds the rows exactly when the captured epoch differs
\* from the widget epoch or no rows are stored: one row per key of args, in
\* the mapping's order, identities 0..n-1, texts by value_to_text, captured
\* epoch the current one and counter n; otherwise the stored rows stay as
\* they are.
C4_RebuildOnEpoch ==
    [][table_op'.kind = "render" =>
         IF table.epoch /= table_epoch \/ ~table.present
         THEN /\ table'.present
              /\ Len(table'.rows) = Len(table_args.items)
              /\ \A i \in 1..Len(table_args.items) :
                    /\ table'.rows[i].id = i - 1
                    /\ table'.rows[i].parameter = table_args.items[i].k
                    /\ table'.rows[i].value = value_to_text(table_args.items[i].v)
              /\ table'.epoch = table_epoch
              /\ table'.counter = Len(table_args.items)
         ELSE table' = table]_vars

\* rows edited in one epoch were replaced by the rows of a new document
C4_Witness ==
    /\ table_op.kind = "render" /\ table_op.rebuilt
    /\ table_epoch = 2 /\ table.epoch = 2
    /\ table.rows = <<Row(0, KeyA, <<"true">>), Row(1, KeyK, <<"[", "1", "]">>)>>
    /\ table.counter = 2

LastRowNamed(rows, k) ==
    CHOOSE i \in 1..Len(rows) :
        /\ Strip(rows[i].parameter) = k
        /\ \A j \in (i + 1)..Len(rows) : Strip(rows[j].parameter) /= k

\* C6: the mapping written back after a render has exactly the non-empty
\* trimmed parameter names of the rows as keys, each with parse_arg_value of
\* the value text of the last row carrying that name.
C6_Materialize ==
    table_op.kind \in {"render", "add", "edit", "remove"} =>
        /\ IsDict(table_args)
        /\ Keys(table_args) =
              {Strip(table.rows[i].parameter) : i \in 1..Len(table.rows)} \ {<<>>}
        /\ \A k \in Keys(table_args) :
              GetItem(table_args, k) =
                  parse_arg_value(table.rows[LastRowNamed(table.rows, k)].value)

\* two rows with the same trimmed name: the later one's value is in the mapping
C6_Witness ==
    /\ table_op.kind = "edit"
    /\ table.rows = <<Row(0, KeyK, <<"v">>), Row(1, <<SPACE, "k">>, <<"[", "1", "]">>)>>
    /\ table_args = Dict(<<Item(KeyK, List(<<Num(1)>>))>>)

\* C11: ensure_section is idempotent: a second call with the same path and
\* default leaves the config exactly as the first call left it and returns
\* the same node.
C11_EnsureIdempotent ==
    [][ensure_pc = "done" /\ ensure_pc' = "again" =>
           /\ ensure_result'.config = ensure_result.config
           /\ ensure_result'.node = ensure_result.node]_vars

\* the second call was made on a config that holds the default at the end
\* of a path of two keys, and gave it back with the same node
C11_Witness ==
    /\ ensure_pc = "again"
    /\ ensure_path = <<KeyX, KeyY>>
    /\ ensure_default = Dict(<<Item(KeyA, Num(1))>>)
    /\ ensure_config = Dict(<<Item(KeyX, Dict(<<Item(KeyY, ensure_default)>>))>>)
    /\ ensure_result = [config |-> ensure_config, node |-> ensure_default]

(***************************************************************************)
(* Claims about normalize_store_config                                     *)
(***************************************************************************)
StoreBefore(key) == Get(call_input.arg, key)
StoreAfter(key) == Get(call_result.config, key)

\* C12: after normalize_store_config the source store is a mapping whose
\* name is "custom" and whose args are not a non-empty value: a missing or
\* non-mapping source store has become {name: "custom", args: {}}, any other
\* name has been forced to "custom", non-empty args have been replaced by an
\* empty mapping.
C12_SourceStore ==
    call_pc = "done" =>
        /\ IsDict(StoreAfter(KeySourceStore))
        /\ Get(StoreAfter(KeySourceStore), KeyName) = Str(NameCustom)
        /\ ~Truthy(Get(StoreAfter(KeySourceStore), KeyArgs))
        /\ ~IsDict(StoreBefore(KeySourceStore)) =>
              StoreAfter(KeySourceStore) = ModuleEntry(NameCustom, EmptyDict)
        /\ IsDict(StoreBefore(KeySourceStore))
              /\ Truthy(Get(StoreBefore(KeySourceStore), KeyArgs)) =>
              Get(StoreAfter(KeySourceStore), KeyArgs) = EmptyDict

\* a source store named weird with args has become custom without args
C12_Witness ==
    /\ call_pc = "done"
    /\ StoreBefore(KeySourceStore) =
          ModuleEntry(<<"weird">>, Dict(<<Item(KeyK, Str(<<"v">>))>>))
    /\ StoreAfter(KeySourceStore) = ModuleEntry(NameCustom, EmptyDict)

\* C13: after normalize_store_config the target store is a mapping whose
\* name is not "custom" and whose args are a mapping; a missing or
\* non-mapping target store has become {name: "cosine_similarity", args: {}},
\* the name "custom" has become "cosine_similarity", and in a target store
\* that was a mapping every other name, args that were a mapping and every
\* other key are as they were.
C13_TargetStore ==
    call_pc = "done" =>
        /\ IsDict(StoreAfter(KeyTargetStore))
        /\ ~PyEq(Get(StoreAfter(KeyTargetStore), KeyName), Str(NameCustom))
        /\ HasKey(StoreAfter(KeyTargetStore), KeyArgs)
        /\ IsDict(GetItem(StoreAfter(KeyTargetStore), KeyArgs))
        /\ ~IsDict(StoreBefore(KeyTargetStore)) =>
              StoreAfter(KeyTargetStore) = ModuleEntry(NameCosine, EmptyDict)
        /\ IsDict(StoreBefore(KeyTargetStore)) =>
              /\ IF PyEq(Get(StoreBefore(KeyTargetStore), KeyName), Str(NameCustom))
                 THEN Get(StoreAfter(KeyTargetStore), KeyName) = Str(NameCosine)
                 ELSE /\ HasKey(StoreAfter(KeyTargetStore), KeyName)
                            = HasKey(StoreBefore(KeyTargetStore), KeyName)
                      /\ Get(StoreAfter(KeyTargetStore), KeyName)
                            = Get(StoreBefore(KeyTargetStore), KeyName)
              /\ IsDict(Get(StoreBefore(KeyTargetStore), KeyArgs)) =>
                    Get(StoreAfter(KeyTargetStore), KeyArgs)
                       = Get(StoreBefore(KeyTargetStore), KeyArgs)
              /\ \A k \in Keys(StoreBefore(KeyTargetStore)) \ {KeyName, KeyArgs} :
                    Get(StoreAfter(KeyTargetStore), k) = Get(StoreBefore(KeyTargetStore), k)

\* a target store named custom was renamed and kept its args and its other key
C13_Witness ==
    /\ call_pc = "done"
    /\ StoreBefore(KeyTargetStore) =
          Dict(<<Item(KeyName, Str(NameCustom)),
                 Item(KeyArgs, Dict(<<Item(KeyK, Str(<<"v">>))>>)), Item(KeyB, Num(1))>>)
    /\ StoreAfter(KeyTargetStore) =
          Dict(<<Item(KeyName, Str(NameCosine)),
                 Item(KeyArgs, Dict(<<Item(KeyK, Str(<<"v">>))>>)), Item(KeyB, Num(1))>>)

\* the rules of the normalisation that change a store of the document
TargetRulesChanging(store) ==
    IF ~IsDict(store) THEN 1
    ELSE (IF PyEq(Get(store, KeyName), Str(NameCustom)) THEN 1 ELSE 0)
         + (IF ~IsDict(Get(store, KeyArgs)) THEN 1 ELSE 0)
SourceRulesChanging(store) ==
    IF ~IsDict(store) THEN 1
    ELSE (IF ~PyEq(Get(store, KeyName), Str(NameCustom)) THEN 1 ELSE 0)
         + (IF Truthy(Get(store, KeyArgs)) THEN 1 ELSE 0)

\* C14 as stated: normalize_store_config returns one note for each rule that
\* changed the document, and no note exactly when the document is as it
\* was; a source store {name: "weird", args: {k: v}} gives two notes.
C14_NotePerRule ==
    call_pc = "done" =>
        /\ Len(call_result.notes) = TargetRulesChanging(StoreBefore(KeyTargetStore))
                                    + SourceRulesChanging(StoreBefore(KeySourceStore))
        /\ call_result.notes = <<>> <=> call_result.config = call_input.arg

\* C15: normalize_store_config called a second time, right after the first,
\* leaves the document as the first call left it and returns no notes.
C15_NormalizeIdempotent ==
    [][call_pc = "done" /\ call_pc' = "again" =>
           /\ call_result'.config = call_result.config
           /\ call_result'.notes = <<>>]_vars

\* the second call came after a first call that changed both stores
C15_Witness ==
    /\ call_pc = "again"
    /\ ~HasKey(call_input.arg, KeyTargetStore)
    /\ StoreBefore(KeySourceStore) =
          ModuleEntry(<<"weird">>, Dict(<<Item(KeyK, Str(<<"v">>))>>))
    /\ StoreAfter(KeySourceStore) = ModuleEntry(NameCustom, EmptyDict)
    /\ StoreAfter(KeyTargetStore) = ModuleEntry(NameCosine, EmptyDict)
    /\ call_result.notes = <<>>

(***************************************************************************)
(* Claims about module_name_input                                          *)
(***************************************************************************)
NameAfter == Get(call_result.config, KeyName)

\* C17: without descriptors the entry's name is the text of the text input
\* and no descriptor is returned; with descriptors a known name chosen is
\* stored as it is and its descriptor returned, "<custom>" chosen stores the
\* text of the custom name input and returns no descriptor; the options are
\* "<custom>" followed by the known names in ascending order.
C17_ModuleNameInput ==
    call_pc = "done" =>
        /\ call_input.arg.definitions = {} =>
              /\ call_input.arg.ui.typed => NameAfter = Str(call_input.arg.ui.text)
              /\ IsStr(NameAfter)
              /\ call_result.module_def = NoDescriptor
        /\ call_input.arg.definitions /= {} /\ call_input.arg.ui.chosen =>
              IF call_input.arg.ui.selection = CUSTOM
              THEN /\ call_input.arg.ui.typed => NameAfter = Str(call_input.arg.ui.text)
                   /\ IsStr(NameAfter)
                   /\ call_result.module_def = NoDescriptor
              ELSE /\ NameAfter = Str(call_input.arg.ui.selection)
                   /\ call_result.module_def = Descriptor(call_input.arg.ui.selection)
        /\ call_input.arg.definitions /= {} =>
              /\ Len(call_result.options) = Cardinality(call_input.arg.definitions) + 1
              /\ call_result.options[1] = CUSTOM
              /\ {call_result.options[i] : i \in 2..Len(call_result.options)}
                    = call_input.arg.definitions
              /\ \A i, j \in 2..Len(call_result.options) :
                    i < j => TextLess(call_result.options[i], call_result.options[j])

\* the user chose the known name B for an entry named a; B was stored and its
\* descriptor returned, from options in the order of str
C17_Witness ==
    /\ call_pc = "done"
    /\ Get(call_input.arg.module_config, KeyName) = Str(<<"a">>)
    /\ call_input.arg.ui.chosen /\ call_input.arg.ui.selection = <<"B">>
    /\ NameAfter = Str(<<"B">>)
    /\ call_result.module_def = Descriptor(<<"B">>)
    /\ call_result.options = <<CUSTOM, <<"B">>, <<"a">>, <<"a", "b">>>>

\* C18: for an entry whose name is a string, known to the catalog or not,
\* the binding without input of the user shows the known name selected, or
\* else "<custom>" selected and the name as the text of the custom name
\* input, and leaves the entry with the name it had.
C18_NameRoundTrip ==
    call_pc = "done" /\ call_input.arg.ui = NoInput
    /\ IsStr(Get(call_input.arg.module_config, KeyName)) =>
        /\ NameAfter = Get(call_input.arg.module_config, KeyName)
        /\ call_input.arg.definitions /= {} =>
              IF Get(call_input.arg.module_config, KeyName).s \in call_input.arg.definitions
              THEN call_result.selection = Get(call_input.arg.module_config, KeyName).s
              ELSE /\ call_result.selection = CUSTOM
                   /\ call_result.custom_default
                         = Get(call_input.arg.module_config, KeyName)

\* an entry with a name the catalog does not know kept it, as custom text
C18_Witness ==
    /\ call_pc = "done" /\ call_input.arg.ui = NoInput
    /\ call_input.arg.definitions = SortedNameInputs
    /\ Get(call_input.arg.module_config, KeyName) = Str(<<"z">>)
    /\ call_result.selection = CUSTOM
    /\ call_result.custom_default = Str(<<"z">>)
    /\ NameAfter = Str(<<"z">>)

(***************************************************************************)
(* Claims about the classifier's name binding                              *)
(***************************************************************************)
ClassifierNameBefore == Get(call_input.arg.classifier, KeyName)
ClassifierNameAfter == Get(call_result.config, KeyName)

\* C19: a classifier name that is a known mode other than "mock", alone or
\* followed by "_" and a known platform in lower case, is taken apart at its
\* first "_" into that mode and the platform's key in upper case, and the
\* binding without input of the user stores the same name back.
C19_ClassifierRoundTrip ==
    call_pc = "done" /\ call_input.arg.ui = NoClassifierInput =>
        \A m \in ModeDefs \ {MOCK} :
            /\ ClassifierNameBefore = Str(m) =>
                  /\ call_result.current_mode = m
                  /\ call_result.upper_platform = <<>>
                  /\ ClassifierNameAfter = ClassifierNameBefore
            /\ \A p \in PlatformDefs :
                  ClassifierNameBefore = Str(m \o <<UNDERSCORE>> \o Lower(p)) =>
                      /\ call_result.current_mode = m
                      /\ call_result.upper_platform = p
                      /\ ClassifierNameAfter = ClassifierNameBefore

\* "reasoning_openai" was taken apart into reasoning and OPENAI and stored back
C19_Witness ==
    /\ call_pc = "done" /\ call_input.arg.ui = NoClassifierInput
    /\ ClassifierNameBefore = Str(<<"reasoning", UNDERSCORE, "openai">>)
    /\ call_result.current_mode = <<"reasoning">>
    /\ call_result.upper_platform = <<"OPENAI">>
    /\ ClassifierNameAfter = Str(<<"reasoning", UNDERSCORE, "openai">>)

\* C21: whenever the binding stores a name with a platform part, that part
\* is in lower case in the name, for a platform chosen from the catalog and
\* for a custom platform alike; the catalog is asked for the platform in
\* upper case.
C21_PlatformLowerCase ==
    call_pc = "done" /\ ~call_result.crashed /\ call_result.platform_value # <<>>
    /\ call_result.mode_value # <<>> =>
        /\ ClassifierNameAfter =
              Str(call_result.mode_value \o <<UNDERSCORE>>
                  \o Lower(call_result.platform_value))
        /\ Lower(call_result.platform_value) = call_result.platform_value

\* C20: whenever the mode the binding joins is "mock", chosen from the
\* catalog or typed as custom mode, the platform is empty and the name
\* stored is exactly "mock", whatever platform the name had and whatever
\* the platform widgets hold.
C20_MockHasNoPlatform ==
    call_pc = "done" /\ ~call_result.crashed /\ call_result.mode_value = MOCK =>
        /\ call_result.platform_value = <<>>
        /\ ClassifierNameAfter = Str(MOCK)

\* "mock" typed as custom mode, with padding, for the name reasoning_openai
\* and with the platform selectbox at OLLAMA
C20_Witness ==
    /\ call_pc = "done"
    /\ ClassifierNameBefore = Str(ClassifierDefault)
    /\ call_input.arg.ui.mode.chosen /\ call_input.arg.ui.mode.selection = CUSTOM
    /\ call_input.arg.ui.mode.text = <<SPACE, "mock", SPACE>>
    /\ call_input.arg.ui.platform.chosen
    /\ call_input.arg.ui.platform.selection = <<"OLLAMA">>
    /\ ClassifierNameAfter = Str(MOCK)

(***************************************************************************)
(* Claims about the render cycle                                           *)
(***************************************************************************)
\* the module entries a render cycle binds in this document
BoundSections(config) ==
    IF IsList(Get(config, KeyClassifiers)) THEN ModuleSections \ {Classifier}
    ELSE ModuleSections

\* C16 as stated: after a complete render cycle every module entry of the
\* document (the classifier only when there is no classifiers list) is a
\* mapping with exactly the keys name, a string, and args, a mapping; an
\* entry that was absent is its category's default name with empty args.
C16_ModuleEntries ==
    call_pc \in {"done", "again"} /\ ~call_result.crashed =>
        \A sec \in BoundSections(call_result.config) :
            /\ IsDict(Get(call_result.config, sec.key))
            /\ Keys(Get(call_result.config, sec.key)) = {KeyName, KeyArgs}
            /\ IsStr(Get(Get(call_result.config, sec.key), KeyName))
            /\ IsDict(Get(Get(call_result.config, sec.key), KeyArgs))
            /\ ~HasKey(call_input.arg, sec.key) =>
                  Get(call_result.config, sec.key) = ModuleEntry(sec.name, EmptyDict)

\* C22: when the document's classifiers value is a list, a render cycle
\* leaves classifiers as it is and neither creates nor changes a classifier
\* entry, while the result aggregator and the post-processor are bound: each
\* is a mapping with a name and args, and its args editor is shown.
C22_ClassifiersPassThrough ==
    call_pc \in {"done", "again"} /\ IsList(Get(call_input.arg, KeyClassifiers)) =>
        /\ Get(call_result.config, KeyClassifiers) = Get(call_input.arg, KeyClassifiers)
        /\ HasKey(call_result.config, KeyClassifier) = HasKey(call_input.arg, KeyClassifier)
        /\ Get(call_result.config, KeyClassifier) = Get(call_input.arg, KeyClassifier)
        /\ Classifier.prefix \notin call_result.rendered
        /\ \A sec \in {ResultAggregator, PostProcessor} :
              /\ ~call_result.crashed
              /\ sec.prefix \in call_result.rendered
              /\ IsStr(Get(Get(call_result.config, sec.key), KeyName))
              /\ IsDict(Get(Get(call_result.config, sec.key), KeyArgs))

\* a document with a pipeline of two stages and no classifier was rendered:
\* it has no classifier, and the aggregator and the post-processor were
\* created
C22_Witness ==
    /\ call_pc = "done"
    /\ call_input.arg = SetItem(Dict(<<>>), KeyClassifiers, Stages)
    /\ ~HasKey(call_result.config, KeyClassifier)
    /\ Get(call_result.config, KeyClassifiers) = Stages
    /\ Get(call_result.config, ResultAggregator.key)
          = ModuleEntry(ResultAggregator.name, EmptyDict)
    /\ Get(call_result.config, PostProcessor.key) = ModuleEntry(PostProcessor.name, EmptyDict)
    /\ ResultAggregator.prefix \in call_result.rendered

(***************************************************************************)
(* Claims about the session                                                *)
(***************************************************************************)
\* the document, the template name and the widget epoch stay as they are
SessionUntouched ==
    /\ config_data' = config_data
    /\ template_name' = template_name
    /\ widget_epoch' = widget_epoch

\* the handlers that fail in the step about to be taken
LoadTemplateFails ==
    /\ session_pc = "load" /\ session_event.kind = "load" /\ templates /= <<>>
    /\ ~load_json(TemplateText(templates, selected_template')).ok
ImportFails ==
    /\ session_pc = "import" /\ uploaded_config.present
    /\ ~uploaded_config.utf8 \/ ~JsonLoads(uploaded_config.text).ok
OverridesFail ==
    /\ session_pc = "overrides" /\ session_event.kind = "apply"
    /\ ~JsonLoads(raw_override_text).ok \/ ~IsDict(JsonLoads(raw_override_text).val)
SaveFails == session_pc = "export" /\ save_enabled /\ session_event.kind = "save_fails"

IncrementalEvents ==
    {"select", "clear", "add", "edit", "remove", "override_text", "apply", "save",
     "save_fails", "download"}

\* C3 as stated: the widget epoch changes, by +1, only in a run in which
\* the user loaded a template, imported a file or reset to defaults; in a
\* run that any other interaction caused the epoch stays, the sidebar does
\* not replace the document and no args table already stored is rebuilt.
C3_EpochOnlyOnReload ==
    [][/\ widget_epoch' /= widget_epoch =>
             /\ widget_epoch' = widget_epoch + 1
             /\ session_event.kind \in {"load", "upload", "reset"}
       /\ session_event.kind \in IncrementalEvents =>
             /\ widget_epoch' = widget_epoch
             /\ session_pc \in {"load", "import", "reset"} => config_data' = config_data
             /\ \A p \in Prefixes :
                   args_rows[p].present /\ args_rows'[p].present =>
                       args_rows'[p].epoch = args_rows[p].epoch]_vars

(***************************************************************************)
(* Claims about the export                                                 *)
(***************************************************************************)
\* the document as JSON indented by two spaces, with a newline at its end
CanonicalText(config) == JsonDumpsIndent(config, 0) \o <<NEWLINE>>

\* C23: the text given to the download button and the text written by Save
\* to disk are the same text for the same document: each is the document as
\* JSON indented by two spaces, followed by a newline.
C23_SameCanonicalText ==
    session_export.shown =>
        /\ session_export.download = CanonicalText(config_data)
        /\ session_export.written.file =>
              /\ session_export.written.text = CanonicalText(config_data)
              /\ session_export.written.text = session_export.download

\* C24: saving is enabled exactly when CONFIG_TOOL_ENABLE_SAVE in lower case
\* is "1", "true", "yes" or "on"; when it is not enabled no run writes a
\* file, whatever the user does, and every run that reaches the end of the
\* script shows the preview and gives it to the download button.
C24_SaveGated ==
    /\ save_enabled <=> Lower(save_env) \in {<<"1">>, <<"true">>, <<"yes">>, <<"on">>}
    /\ ~save_enabled =>
          /\ ~session_export.written.file
          /\ "Saved" \notin messages /\ "Failed to save file" \notin messages
          /\ session_pc \in {"end", "idle"} /\ session_done.complete =>
                /\ session_export.shown
                /\ session_export.download = JsonDumpsIndent(config_data, 0)

\* CONFIG_TOOL_ENABLE_SAVE is "y": a click on Save to disk reached the
\* script, which showed the preview and wrote nothing
C24_Witness ==
    /\ save_env = <<"y">> /\ ~save_enabled
    /\ session_pc = "end" /\ session_event.kind = "save"
    /\ session_export.shown /\ ~session_export.written.file

(***************************************************************************)
(* Claims about the catalog                                                *)
(***************************************************************************)
CatalogCalled == call_pc = "catalog" /\ call_result'.calls = call_result.calls + 1

\* C25: load_catalog raises FileNotFoundError when the file is absent and
\* nothing has been loaded; once a call has returned a document, every later
\* call returns that document without opening the file, whether the file has
\* been changed or removed since.
C25_CatalogCached ==
    [][CatalogCalled =>
          /\ ~call_result.cache.full /\ ~call_input.arg.exists =>
                /\ call_result'.last.raised = "FileNotFoundError"
                /\ ~call_result'.cache.full
          /\ call_result.cache.full =>
                /\ call_result'.last.raised = "none"
                /\ call_result'.last.val = call_result.cache.val
                /\ ~call_result'.last.opened
                /\ call_result'.cache = call_result.cache]_vars

\* the catalog was loaded, the file removed, and the third call returned
\* the catalog without opening a file
C25_Witness ==
    /\ call_pc = "catalog" /\ call_result.calls = 3
    /\ ~call_input.arg.exists
    /\ call_result.cache = Cached(CatalogDocument)
    /\ call_result.last.raised = "none" /\ call_result.last.val = CatalogDocument
    /\ ~call_result.last.opened

CatalogMissing == Truthy(CATALOG.error)
TypedName == [chosen |-> FALSE, selection |-> <<>>, typed |-> TRUE, text |-> <<"zzz">>]
\* the binding of a module section, with a name typed into its text inputs
TypedBinding(sec, entry) ==
    IF sec.category = "classifier"
    THEN classifier_name_input(entry, CatalogNames("classifier_modes"),
                               CatalogNames("classifier_platforms"),
                               [mode |-> TypedName, platform |-> TypedName])
    ELSE module_name_input(entry, CatalogNames(sec.category), TypedName)

\* C26: when the catalog file is missing, load_catalog_sections gives only
\* an error message; every module binding, the classifier's included, is a
\* text input whose text becomes the name, and finds no descriptor; every
\* run shows the catalog warning, and only then; and a run reaches its end
\* with the args editors, the overrides and the export as with a catalog.
C26_CatalogAbsent ==
    /\ session_pc \in {"import", "reset", "normalize", "sections", "overrides",
                       "export", "end"} =>
          ("Module catalog missing" \in messages <=> CatalogMissing)
    /\ CatalogMissing =>
          /\ DOMAIN CATALOG.defs = {}
          /\ session_pc = "idle" /\ session_done.complete =>
                /\ session_export.shown
                /\ \A sec \in BoundSections(config_data) :
                      /\ sec.category # "source_store" => sec.prefix \in session_done.rendered
                      /\ sec.category \notin {"source_store", "classifier"} =>
                            /\ Get(TypedBinding(sec, Get(config_data, sec.key)).config, KeyName)
                                  = Str(<<"zzz">>)
                            /\ TypedBinding(sec, Get(config_data, sec.key)).module_def
                                  = NoDescriptor
                      /\ sec.category = "classifier" =>
                            Get(TypedBinding(sec, Get(config_data, sec.key)).config, KeyName)
                               = Str(<<"zzz", UNDERSCORE, "zzz">>)

\* without a catalog, a run applied overrides, showed the warning and
\* reached the export
C26_Witness ==
    /\ CatalogMissing
    /\ session_pc = "end" /\ session_done.complete
    /\ session_event.kind = "apply"
    /\ {"Module catalog missing", "Overrides applied"} \subseteq messages
    /\ session_export.shown

(***************************************************************************)
(* Claims about the args tables within the session                         *)
(***************************************************************************)
ArgsOf(config, sec) == Get(Get(config, sec.key), KeyArgs)
\* the rows of the editor were loaded in the epoch the page is in
RowsLoaded(p) == args_rows[p].present /\ args_rows[p].epoch = widget_epoch
\* the sections have been rendered by this step
SectionsStep == session_pc = "sections" /\ session_pc' = "overrides"
\* Apply overrides has merged the override text
Applied ==
    /\ session_pc \in {"export", "end"} /\ session_event.kind = "apply"
    /\ "Overrides applied" \in messages

C28_DocumentIsMapping == IsDict(config_data)

\* the source store of the document a text is the JSON of
SourceStoreIn(text) == Get(JsonLoads(text).val, KeySourceStore)
FixedSourceStore == ModuleEntry(NameCustom, EmptyDict)
\* this run's Apply overrides has merged a source store into the document
SourceStoreOverridden ==
    /\ session_event.kind = "apply" /\ "Overrides applied" \in messages
    /\ HasKey(JsonLoads(raw_override_text).val, KeySourceStore)

\* C29 as stated: every exported text, whether given to the download button
\* or written by Save to disk, is the JSON of a document whose source store
\* has the name "custom" and empty args.
C29_ExportedSourceStore_AsStated ==
    session_pc = "end" /\ session_export.shown =>
        /\ SourceStoreIn(session_export.download) = FixedSourceStore
        /\ session_export.written.file =>
              SourceStoreIn(session_export.written.text) = FixedSourceStore

\* C29: every text written by Save to disk, and the text every run gives to
\* the download button but a run whose Apply overrides has merged a source
\* store, is the JSON of a document whose source store has the name "custom"
\* and empty args; the run that merged a source store shows and offers the
\* merged one.
C29_ExportedSourceStore ==
    session_pc = "end" /\ session_export.shown =>
        /\ session_export.written.file =>
              SourceStoreIn(session_export.written.text) = FixedSourceStore
        /\ IF SourceStoreOverridden
           THEN SourceStoreIn(session_export.download)
                   = merge_dict(FixedSourceStore,
                                Get(JsonLoads(raw_override_text).val, KeySourceStore))
           ELSE SourceStoreIn(session_export.download) = FixedSourceStore

\* the run before merged the source store "weird": this run has renamed it
\* and written a file with the source store "custom"
C29_Witness ==
    /\ session_pc = "end" /\ session_export.written.file
    /\ raw_override_text = JsonDumps(OverrideB)
    /\ "source store forced to 'custom' (only supported option)" \in messages
    /\ SourceStoreIn(session_export.written.text) = FixedSourceStore

====
